---- MODULE Spec2Model ----
(***************************************************************************)
(* Model of the Window handle of dist-js/index.mjs: the local listener     *)
(* table (listen / once / emit / _handleTauriEvent), the creation          *)
(* bootstrap of the constructor and the close negotiation of               *)
(* onCloseRequested.                                                       *)
(***************************************************************************)
EXTENDS Integers, Sequences, FiniteSets, TLC

VARIABLES
    label,      \* this.label
    listeners,  \* this.listeners: event name -> array of handlers
    regKind,    \* history: how each (event, handler) pair was registered so far
    unlCalled,  \* history: the unlisten closure of (event, handler) has been called
    nRegs,      \* history: number of listen/once calls made so far
    last,       \* history: the most recent operation and what it did
    createPhase,    \* where the constructor's create promise chain stands
    createOutcome,  \* history: how the host settled the create command
    bootEmits,      \* history: the events the constructor's chain has emitted
    invoked,    \* the commands sent to the host through __TAURI_INVOKE__
    closeSubs,  \* remote channel: the subscriptions made through onCloseRequested
    negs,       \* the close negotiations started so far, one per wrapper call
    sent,       \* the requests of the handle's query and mutator methods
    mcalls,     \* history: the method calls made, and how each ended
    peer,       \* a second Window instance constructed with the same label
    lastOn,     \* history: the instance the most recent operation was called on
    rcalls,     \* the calls made on the remote event channel
    subs,       \* remote channel: the subscriptions made, in order of their ids
    seen,       \* history: the events the client's composite handler received
    origin,     \* history: how the most recent handle was obtained
    known,      \* window.__TAURI_METADATA__.__windows: the labels of the live windows
    found,      \* what the most recent lookup or construction returned
    geo,        \* a physical size or position, and the outcome of its toLogical
    stack,      \* the local emit passes in progress, innermost last
    scan,       \* the getFocusedWindow call in progress
    comp        \* the composite listener calls made, and the await each is at

bridgeVars == <<listeners, regKind, unlCalled, nRegs, last>>
createVars == <<createPhase, createOutcome, bootEmits>>
closeVars == <<closeSubs, negs>>
cmdVars == <<sent, mcalls>>
peerVars == <<peer, lastOn>>
remoteVars == <<rcalls, subs, seen, comp>>
lookupVars == <<origin, known, found>>
geomVars == <<geo>>
passVars == <<stack>>
scanVars == <<scan>>
extVars ==
    <<cmdVars, peerVars, remoteVars, lookupVars, geomVars, passVars, scanVars>>
vars == <<label, bridgeVars, createVars, invoked, closeVars, extVars>>

(* ----------------------------- bounds --------------------------------- *)

\* Number of listen/once calls the client makes on the handle.
MaxRegs == 3

\* Number of close-requested deliveries the host makes.
MaxNegs == 2

\* Number of onCloseRequested calls and of negotiations, taken together.
MaxCloseOps == 4

\* Number of calls the client makes of the methods and functions that send a
\* request to the host.
MaxCalls == 1

(* ------------------------ the client's values ------------------------- *)

Labels == {"w1", "w2"}

\* Handler functions of the client, by identity.
Handlers == {"h1", "h2"}

\* Payloads a client passes to emit.
Payloads == {"p1"}

\* What a handler does when it is invoked: return, throw, or call the
\* unlisten closure it holds for a handler of the event being dispatched.
Behaviours ==
    {<<"ret", "none">>, <<"throw", "none">>} \cup {<<"unlisten", h>> : h \in Handlers}

(* --------------------------- JS built-ins ----------------------------- *)

\* Array.prototype.indexOf: 0-based index of the first occurrence, or -1.
RECURSIVE IndexFrom(_, _, _)
IndexFrom(s, x, i) ==
    IF i >= Len(s) THEN 0 - 1
    ELSE IF s[i + 1] = x THEN i
    ELSE IndexFrom(s, x, i + 1)

IndexOf(s, x) == IndexFrom(s, x, 0)

\* Array.prototype.splice(start, 1): a negative start counts from the end
\* (clamped at 0), a start beyond the end is the end; removes one element when
\* there is one at the start index.
Splice1(s, start) ==
    LET n == Len(s)
        from == IF start < 0
                THEN (IF n + start < 0 THEN 0 ELSE n + start)
                ELSE (IF start > n THEN n ELSE start)
    IN  IF from >= n THEN s
        ELSE [i \in 1..(n - 1) |-> IF i <= from THEN s[i] ELSE s[i + 1]]

Count(s, x) == Cardinality({i \in 1..Len(s) : s[i] = x})

Range(s) == {s[i] : i \in 1..Len(s)}

(* ------------------------- the listener table ------------------------- *)

localTauriEvents == <<"tauri://created", "tauri://error">>

LocalEvents == Range(localTauriEvents)

\* localTauriEvents.includes(event)
IsLocal(event) == event \in LocalEvents

\* this.listeners[event] || []
ListOf(ls, event) == IF event \in DOMAIN ls THEN ls[event] ELSE <<>>

\* this.listeners[event] = array
SetList(ls, event, array) ==
    [e \in (DOMAIN ls) \cup {event} |-> IF e = event THEN array ELSE ls[e]]

\* Variant that forwards every event name to the remote channel.
RemoteCallsAlways(fn, event, lbl) ==
    <<[fn |-> fn, event |-> event, target |-> lbl]>>

\* The calls listen, once and emit make on the remote channel: for an event
\* outside localTauriEvents, fn(event, ..., { target: this.label }).
RemoteCalls(fn, event, lbl) ==
    IF IsLocal(event) THEN <<>>
    ELSE <<[fn |-> fn, event |-> event, target |-> lbl]>>

\* Variant of _handleTauriEvent that stores a handler under any event name.
HandleTauriEventAnyName(ls, event, handler) ==
    IF event \notin DOMAIN ls
    THEN SetList(ls, event, <<handler>>)
    ELSE SetList(ls, event, Append(ls[event], handler))

\* _handleTauriEvent: the table after the call (unchanged for a remote event).
HandleTauriEvent(ls, event, handler) ==
    IF IsLocal(event)
    THEN IF event \notin DOMAIN ls
         THEN SetList(ls, event, <<handler>>)
         ELSE SetList(ls, event, Append(ls[event], handler))
    ELSE ls

\* Variant of the closure that splices one past the handler's index.
UnlistenLocalOffByOne(ls, event, handler) ==
    SetList(ls, event, Splice1(ls[event], IndexOf(ls[event], handler) + 1))

\* Variant of the closure that filters out every occurrence of the handler.
UnlistenLocalFilter(ls, event, handler) ==
    SetList(ls, event, SelectSeq(ls[event], LAMBDA x : x # handler))

\* The closure returned by listen and once for a local event:
\* listeners.splice(listeners.indexOf(handler), 1)
UnlistenLocal(ls, event, handler) ==
    SetList(ls, event, Splice1(ls[event], IndexOf(ls[event], handler)))

\* Variant of the envelope that carries the event name as the window label.
EnvelopeEventAsLabel(event, lbl, payload) ==
    [event |-> event, id |-> 0 - 1, windowLabel |-> event, payload |-> payload]

\* The envelope a local emit hands to each handler.
Envelope(event, lbl, payload) ==
    [event |-> event, id |-> 0 - 1, windowLabel |-> lbl, payload |-> payload]

\* Variant of the loop that catches a handler's error and goes on.
RECURSIVE EmitLoopContinue(_, _, _, _, _, _, _)
EmitLoopContinue(ls, event, env, beh, i, calls, unl) ==
    IF i >= Len(ListOf(ls, event))
    THEN [listeners |-> ls, calls |-> calls, threw |-> FALSE, unl |-> unl]
    ELSE LET handler == ls[event][i + 1]
             calls2 == Append(calls, [h |-> handler, env |-> env])
         IN  IF beh[handler][1] \in {"throw", "ret"}
             THEN EmitLoopContinue(ls, event, env, beh, i + 1, calls2, unl)
             ELSE EmitLoopContinue(UnlistenLocal(ls, event, beh[handler][2]), event,
                                   env, beh, i + 1, calls2, unl \cup {beh[handler][2]})

\* The for-of loop of emit over the live array this.listeners[event]: the
\* iterator holds an index i and stops when i reaches the array's current length.
\* beh[h] is what handler h does when invoked. The result is the table after
\* the pass, the invocations made (handler, envelope), whether a handler threw,
\* and the handlers whose unlisten closure was called during the pass.
RECURSIVE EmitLoop(_, _, _, _, _, _, _)
EmitLoop(ls, event, env, beh, i, calls, unl) ==
    IF i >= Len(ListOf(ls, event))
    THEN [listeners |-> ls, calls |-> calls, threw |-> FALSE, unl |-> unl]
    ELSE LET handler == ls[event][i + 1]
             calls2 == Append(calls, [h |-> handler, env |-> env])
         IN  IF beh[handler][1] = "throw"
             THEN [listeners |-> ls, calls |-> calls2, threw |-> TRUE, unl |-> unl]
             ELSE IF beh[handler][1] = "ret"
             THEN EmitLoop(ls, event, env, beh, i + 1, calls2, unl)
             ELSE EmitLoop(UnlistenLocal(ls, event, beh[handler][2]), event, env,
                           beh, i + 1, calls2, unl \cup {beh[handler][2]})

\* Variant of emit whose loop starts at the second handler.
EmitLocalFromSecond(ls, event, lbl, payload, beh) ==
    EmitLoop(ls, event, Envelope(event, lbl, payload), beh, 1, <<>>, {})

\* emit(event, payload) for a local event.
EmitLocal(ls, event, lbl, payload, beh) ==
    EmitLoop(ls, event, Envelope(event, lbl, payload), beh, 0, <<>>, {})

(* ------------------------------ history ------------------------------- *)

NoOp == [op |-> "none", by |-> "none", event |-> "none", handler |-> "none",
         start |-> <<>>, calls |-> <<>>, threw |-> FALSE, unl |-> {},
         payload |-> "none", throwers |-> {}, raw |-> [kind |-> "none"]]

\* "none": never registered; "listen" / "once": registered exactly once, that
\* way; "multi": registered more than once.
NextKind(k, how) == IF k = "none" THEN how ELSE "multi"

\* The unlisten closures the client holds for an event.
Issued(event) == {h \in Handlers : regKind[event][h] # "none"}

\* A handler only calls closures the client holds.
BehavioursOf(event) ==
    {beh \in [Handlers -> Behaviours] :
        \A h \in Handlers :
            beh[h][1] = "unlisten" => beh[h][2] \in Issued(event)}

\* The handlers of a list that throw when invoked.
Throwers(list, beh) == {h \in Range(list) : beh[h][1] = "throw"}

CalledHandlers(calls) == {calls[i].h : i \in 1..Len(calls)}

\* No getFocusedWindow call has been made.
NoScan == [phase |-> "none"]

\* No physical value has been constructed.
NoGeo == [kind |-> "none"]

\* No second instance has been constructed.
NoPeer == [made |-> FALSE, listeners |-> [e \in {} |-> <<>>], issued |-> {}]

(* ------------------------------ actions ------------------------------- *)

\* Variant of the constructor that emits "tauri://created" before it returns.
ConstructedEmitsAtOnce(skip) ==
    /\ label \in Labels
    /\ listeners = [e \in {} |-> <<>>]
    /\ regKind = [e \in LocalEvents |-> [h \in Handlers |-> "none"]]
    /\ unlCalled = [e \in LocalEvents |-> {}]
    /\ nRegs = 0
    /\ last = NoOp
    /\ createPhase = IF skip THEN "skipped" ELSE "pending"
    /\ createOutcome = "none"
    /\ bootEmits = IF skip THEN <<>> ELSE <<localTauriEvents[1]>>
    /\ invoked = IF skip THEN <<>>
                 ELSE <<[cmd |-> "plugin:window|create", label |-> label,
                         by |-> "ctor"]>>
    /\ closeSubs = <<>>
    /\ negs = <<>>
    /\ sent = <<>>
    /\ mcalls = <<>>
    /\ peer = NoPeer
    /\ lastOn = "none"
    /\ rcalls = <<>>
    /\ subs = <<>>
    /\ seen = <<>>
    /\ origin = IF skip THEN "getCurrent" ELSE "new"
    /\ known = <<label>>
    /\ found = <<>>
    /\ geo = NoGeo
    /\ stack = <<>>
    /\ scan = NoScan
    /\ comp = [c \in {} |-> [phase |-> "idle", k |-> 0]]

\* new Window(label, options): the fields set by the constructor. A handle made
\* with skip (getCurrent, getAll, getByLabel) sends no create command.
Constructed(skip) ==
    /\ label \in Labels
    /\ listeners = [e \in {} |-> <<>>]
    /\ regKind = [e \in LocalEvents |-> [h \in Handlers |-> "none"]]
    /\ unlCalled = [e \in LocalEvents |-> {}]
    /\ nRegs = 0
    /\ last = NoOp
    /\ createPhase = IF skip THEN "skipped" ELSE "pending"
    /\ createOutcome = "none"
    /\ bootEmits = <<>>
    /\ invoked = IF skip THEN <<>>
                 ELSE <<[cmd |-> "plugin:window|create", label |-> label,
                         by |-> "ctor"]>>
    /\ closeSubs = <<>>
    /\ negs = <<>>
    /\ sent = <<>>
    /\ mcalls = <<>>
    /\ peer = NoPeer
    /\ lastOn = "none"
    /\ rcalls = <<>>
    /\ subs = <<>>
    /\ seen = <<>>
    /\ origin = IF skip THEN "getCurrent" ELSE "new"
    /\ known = <<label>>
    /\ found = <<>>
    /\ geo = NoGeo
    /\ stack = <<>>
    /\ scan = NoScan
    /\ comp = [c \in {} |-> [phase |-> "idle", k |-> 0]]

Init == Constructed(TRUE)

\* Variant of listen that replays an event the constructor has already emitted.
ListenReplay(event, handler) ==
    /\ nRegs < MaxRegs
    /\ nRegs' = nRegs + 1
    /\ listeners' = HandleTauriEvent(listeners, event, handler)
    /\ regKind' = [regKind EXCEPT ![event][handler] = NextKind(@, "listen")]
    /\ last' = [NoOp EXCEPT !.op = "listen", !.event = event, !.handler = handler,
                            !.calls = IF event \in Range(bootEmits)
                                      THEN <<[h |-> handler,
                                              env |-> Envelope(event, label, "none")]>>
                                      ELSE <<>>]
    /\ UNCHANGED <<label, unlCalled, createVars, invoked, closeVars, extVars>>

\* listen(event, handler), event local: _handleTauriEvent, then the closure.
Listen(event, handler) ==
    /\ nRegs < MaxRegs
    /\ nRegs' = nRegs + 1
    /\ listeners' = HandleTauriEvent(listeners, event, handler)
    /\ regKind' = [regKind EXCEPT ![event][handler] = NextKind(@, "listen")]
    /\ last' = [NoOp EXCEPT !.op = "listen", !.event = event, !.handler = handler]
    /\ UNCHANGED <<label, unlCalled, createVars, invoked, closeVars, extVars>>

\* once(event, handler), event local: _handleTauriEvent, then the closure.
Once(event, handler) ==
    /\ nRegs < MaxRegs
    /\ nRegs' = nRegs + 1
    /\ listeners' = HandleTauriEvent(listeners, event, handler)
    /\ regKind' = [regKind EXCEPT ![event][handler] = NextKind(@, "once")]
    /\ last' = [NoOp EXCEPT !.op = "once", !.event = event, !.handler = handler]
    /\ UNCHANGED <<label, unlCalled, createVars, invoked, closeVars, extVars>>

\* The client calls the closure returned by listen/once(event, handler).
Unlisten(event, handler) ==
    /\ handler \in Issued(event)
    /\ listeners' = UnlistenLocal(listeners, event, handler)
    /\ unlCalled' = [unlCalled EXCEPT ![event] = @ \cup {handler}]
    /\ last' = [NoOp EXCEPT !.op = "unlisten", !.event = event, !.handler = handler,
                            !.start = ListOf(listeners, event)]
    /\ UNCHANGED <<label, regKind, nRegs, createVars, invoked, closeVars, extVars>>

\* emit(event, payload) on a local event runs the whole pass; by says who called.
EmitBy(by, event, payload, beh) ==
    LET r == EmitLocal(listeners, event, label, payload, beh)
    IN  /\ listeners' = r.listeners
        /\ unlCalled' = [unlCalled EXCEPT ![event] = @ \cup r.unl]
        /\ last' = [NoOp EXCEPT !.op = "emit", !.by = by, !.event = event,
                                !.payload = payload,
                                !.start = ListOf(listeners, event),
                                !.calls = r.calls, !.threw = r.threw, !.unl = r.unl,
                                !.throwers = Throwers(ListOf(listeners, event), beh)]
        /\ UNCHANGED <<label, regKind, nRegs>>

\* The client calls emit(event, payload), event local.
Emit(event, payload, beh) ==
    /\ EmitBy("client", event, payload, beh)
    /\ UNCHANGED <<createVars, invoked, closeVars, extVars>>

Next ==
    \/ \E e \in LocalEvents, h \in Handlers : Listen(e, h)
    \/ \E e \in LocalEvents, h \in Handlers : Once(e, h)
    \/ \E e \in LocalEvents, h \in Handlers : Unlisten(e, h)
    \/ \E e \in LocalEvents, p \in Payloads :
          \E beh \in BehavioursOf(e) : Emit(e, p, beh)

Spec == Init /\ [][Next]_vars

(* ------------------- properties of the listener table ------------------ *)

\* The handlers a pass invoked, in order.
Invoked(calls) == [i \in 1..Len(calls) |-> calls[i].h]

\* No handler of the pass threw or called an unlisten closure.
Undisturbed(pass) == ~pass.threw /\ pass.unl = {}

\* s without the first occurrence of x.
RemoveFirst(s, x) ==
    IF x \notin Range(s) THEN s
    ELSE LET k == CHOOSE i \in 1..Len(s) :
                      s[i] = x /\ \A j \in 1..(i - 1) : s[j] # x
         IN  SubSeq(s, 1, k - 1) \o SubSeq(s, k + 1, Len(s))

\* C1: an emit on a local event whose handlers all return, and call no unlisten
\* closure, invokes the handlers registered for the event once each per
\* registration, in registration order (h1 before h2).
C1_RegistrationOrder ==
    (last.op = "emit" /\ Undisturbed(last)) => Invoked(last.calls) = last.start

C1_Witness ==
    /\ last.op = "emit"
    /\ Undisturbed(last)
    /\ last.start = <<"h1", "h2">>
    /\ Invoked(last.calls) = <<"h1", "h2">>
    /\ regKind[last.event] = [h \in Handlers |-> "listen"]

\* C2: once the unlisten closure of listen(e, h) has been called (h registered
\* that one time only), no later emit(e) invokes h.
C2_UnlistenStops ==
    [][last'.op = "emit" =>
          \A h \in Handlers :
              (regKind[last'.event][h] = "listen" /\ h \in unlCalled[last'.event])
                  => h \notin CalledHandlers(last'.calls)]_vars

C2_Witness ==
    /\ last.op = "emit"
    /\ \E h \in Handlers :
          /\ regKind[last.event][h] = "listen"
          /\ h \in unlCalled[last.event]
          /\ h \notin last.unl
          /\ h \notin CalledHandlers(last.calls)
    /\ Len(last.calls) > 0

\* C3: a handler registered with once(e, h) (and in no other way) that an
\* emit(e) has invoked is not invoked by the next emit(e).
C3_OnceFiresOnce ==
    [][(last.op = "emit" /\ last'.op = "emit" /\ last'.event = last.event) =>
          \A h \in Handlers :
              (regKind[last.event][h] = "once" /\ h \in CalledHandlers(last.calls))
                  => h \notin CalledHandlers(last'.calls)]_vars

\* C8: an emit on a local event in which no handler throws invokes exactly the
\* handlers registered when it started, once per registration and in
\* registration order, whatever unlisten closures the handlers call.
C8_SnapshotDispatch ==
    (last.op = "emit" /\ ~last.threw) => Invoked(last.calls) = last.start

\* C9: a call of the unlisten closure of (e, h) leaves the registrations of
\* every other handler of e as they were.
C9_UnlistenOnlyOwn ==
    [][last'.op = "unlisten" =>
          \A g \in Handlers \ {last'.handler} :
              Count(ListOf(listeners', last'.event), g)
                  = Count(ListOf(listeners, last'.event), g)]_vars

\* C10: with h registered twice for e, one call of an unlisten closure of h
\* removes the first occurrence only (the list is one shorter and h is still in
\* it once), and a following emit(e) whose handlers all return invokes h once.
C10_RemovesOneOccurrence ==
    [][/\ (last'.op = "unlisten" /\ Count(last'.start, last'.handler) = 2) =>
            /\ ListOf(listeners', last'.event) = RemoveFirst(last'.start, last'.handler)
            /\ Len(ListOf(listeners', last'.event)) = Len(last'.start) - 1
            /\ Count(ListOf(listeners', last'.event), last'.handler) = 1
       /\ (/\ last.op = "unlisten"
           /\ Count(last.start, last.handler) = 2
           /\ last'.op = "emit"
           /\ last'.event = last.event
           /\ Undisturbed(last')) =>
            Count(Invoked(last'.calls), last.handler) = 1]_vars

C10_Witness ==
    /\ last.op = "unlisten"
    /\ last.start = <<"h1", "h2", "h1">>
    /\ ListOf(listeners, last.event) = <<"h2", "h1">>
    /\ last.handler = "h1"

\* C12: in a local emit the first invoked handler that throws ends the pass:
\* no handler is invoked after it, and the emit call fails; an emit in which no
\* invoked handler throws does not fail.
C12_HandlerErrorAborts ==
    last.op = "emit" =>
        /\ last.threw <=> (CalledHandlers(last.calls) \cap last.throwers # {})
        /\ \A i \in 1..Len(last.calls) :
              last.calls[i].h \in last.throwers => i = Len(last.calls)

C12_Witness ==
    /\ last.op = "emit"
    /\ last.threw
    /\ last.start = <<"h1", "h2", "h1">>
    /\ last.throwers = {"h2"}
    /\ Invoked(last.calls) = <<"h1", "h2">>

\* C20: every invocation made by emit(e, p) on a local event receives the
\* envelope { event: e, id: -1, windowLabel: this.label, payload: p }.
C20_Envelope ==
    last.op = "emit" =>
        \A i \in 1..Len(last.calls) :
            last.calls[i].env = [event |-> last.event, id |-> 0 - 1,
                                 windowLabel |-> label, payload |-> last.payload]

C20_Witness ==
    /\ last.op = "emit"
    /\ last.by = "client"
    /\ label = "w2"
    /\ last.event = "tauri://error"
    /\ last.payload = "p1"
    /\ Len(last.calls) = 2
    /\ last.calls[2].env.windowLabel = "w2"
    /\ last.calls[2].env.id = 0 - 1

(* ----------------------- the creation bootstrap ------------------------ *)

CreatedEvent == localTauriEvents[1]
ErrorEvent == localTauriEvents[2]

\* Variant: the .then callback emits the error event.
ThenEventSwapped == ErrorEvent

\* The event the .then callback of the constructor emits.
ThenEvent == CreatedEvent

\* The event the .catch callback of the constructor emits.
CatchEvent == ErrorEvent

\* The phase after the .then callback: a rejected emit falls through to .catch.
AfterThen(threw) == IF threw THEN "catch" ELSE "done"

\* The host answers the create command: the promise of __TAURI_INVOKE__ resolves.
CreateResolve ==
    /\ createPhase = "pending"
    /\ createOutcome' = "ok"
    /\ createPhase' = "then"
    /\ UNCHANGED <<label, bridgeVars, bootEmits, invoked, closeVars, extVars>>

\* The host rejects the create command: .then is skipped, .catch is next.
CreateReject ==
    /\ createPhase = "pending"
    /\ createOutcome' = "err"
    /\ createPhase' = "catch"
    /\ UNCHANGED <<label, bridgeVars, bootEmits, invoked, closeVars, extVars>>

\* .then(async () => this.emit("tauri://created"))
ThenCb(beh) ==
    /\ createPhase = "then"
    /\ EmitBy("ctor", ThenEvent, "undefined", beh)
    /\ bootEmits' = Append(bootEmits, ThenEvent)
    /\ createPhase' = AfterThen(last'.threw)
    /\ UNCHANGED <<createOutcome, invoked, closeVars, extVars>>

\* .catch(async (e) => this.emit("tauri://error", e)): e is the host's reason,
\* or the error a "created" handler threw.
CatchCb(beh) ==
    /\ createPhase = "catch"
    /\ EmitBy("ctor", CatchEvent,
              IF createOutcome = "err" THEN "hostError" ELSE "handlerError", beh)
    /\ bootEmits' = Append(bootEmits, CatchEvent)
    /\ createPhase' = "done"
    /\ UNCHANGED <<createOutcome, invoked, closeVars, extVars>>

InitCreate == Constructed(FALSE)

NextCreate ==
    \/ \E e \in LocalEvents, h \in Handlers : Listen(e, h)
    \/ \E e \in LocalEvents, h \in Handlers : Once(e, h)
    \/ \E e \in LocalEvents, h \in Handlers : Unlisten(e, h)
    \/ CreateResolve
    \/ CreateReject
    \/ \E beh \in BehavioursOf(ThenEvent) : ThenCb(beh)
    \/ \E beh \in BehavioursOf(CatchEvent) : CatchCb(beh)

SpecCreate == InitCreate /\ [][NextCreate]_vars

(* ------------------ properties of the creation bootstrap --------------- *)

\* C6: the constructor's chain emits nothing before the create command
\* settles, never emits more than one event, and has emitted exactly one of
\* "tauri://created" / "tauri://error" when it is done, also when a "created"
\* handler throws.
C6_BootstrapExclusive ==
    /\ createPhase = "pending" => bootEmits = <<>>
    /\ Len(bootEmits) <= 1
    /\ createPhase = "done" => Len(bootEmits) = 1

\* C7: when the create command succeeds the chain emits "tauri://created"
\* first, every invocation of that pass carries windowLabel = this.label, and
\* (when no handler of the pass throws or calls an unlisten closure) every
\* handler registered for "tauri://created" at that moment is invoked; when
\* the command is rejected "tauri://created" is never emitted and the chain
\* ends having emitted "tauri://error" only.
C7_CreationBootstrap ==
    /\ (createOutcome = "ok" /\ createPhase # "then") => bootEmits[1] = CreatedEvent
    /\ (last.op = "emit" /\ last.by = "ctor" /\ last.event = CreatedEvent) =>
          /\ createOutcome = "ok"
          /\ \A i \in 1..Len(last.calls) :
                /\ last.calls[i].env.windowLabel = label
                /\ last.calls[i].env.event = CreatedEvent
          /\ Undisturbed(last) => Invoked(last.calls) = last.start
    /\ createOutcome = "err" =>
          /\ CreatedEvent \notin Range(bootEmits)
          /\ createPhase = "done" => bootEmits = <<ErrorEvent>>

C7_Witness ==
    /\ createOutcome = "ok"
    /\ last.op = "emit"
    /\ last.by = "ctor"
    /\ last.event = CreatedEvent
    /\ last.start = <<"h1">>
    /\ Len(last.calls) = 1
    /\ last.calls[1].h = "h1"
    /\ last.calls[1].env.windowLabel = label
    /\ label = "w1"

\* C18: the constructor's chain is the only place a creation outcome goes: a
\* rejected create command leads to one emit of "tauri://error" carrying the
\* host's reason and to no other emit, the create command is not sent again,
\* the chain emits no event a second time and nothing once it is done, and
\* listen, once and unlisten invoke no handler, so a handler registered after
\* the emit of its event is not invoked for that creation.
C18_CreationFailureNoReplay ==
    [][/\ last'.op \in {"listen", "once", "unlisten"} => last'.calls = <<>>
       /\ bootEmits' # bootEmits =>
             /\ Len(bootEmits') = Len(bootEmits) + 1
             /\ bootEmits'[Len(bootEmits')] \notin Range(bootEmits)
             /\ last'.op = "emit" /\ last'.by = "ctor"
             /\ last'.event = bootEmits'[Len(bootEmits')]
       /\ createPhase = "done" => (createPhase' = "done" /\ bootEmits' = bootEmits)
       /\ invoked' = invoked
       /\ createOutcome' = "err" =>
             /\ bootEmits' \in {<<>>, <<ErrorEvent>>}
             /\ (last'.op = "emit" /\ last'.by = "ctor") =>
                    /\ last'.event = ErrorEvent
                    /\ last'.payload = "hostError"
                    /\ \A i \in 1..Len(last'.calls) :
                           last'.calls[i].env.payload = "hostError"]_vars

C18_Witness ==
    /\ createOutcome = "err"
    /\ createPhase = "done"
    /\ bootEmits = <<ErrorEvent>>
    /\ last.op = "listen"
    /\ last.event = ErrorEvent
    /\ last.handler = "h2"
    /\ last.calls = <<>>
    /\ ListOf(listeners, ErrorEvent) = <<"h1", "h2">>

(* ------------------------ the close negotiation ----------------------- *)

CloseRequested == "tauri://close-requested"

\* What the client's close handler does in its synchronous part: whether it
\* calls evt.preventDefault(), and whether it then returns a value, throws, or
\* returns a promise that is still pending (an async handler at an await).
SyncParts == [pd : BOOLEAN, end : {"return", "throw", "suspend"}]

\* new CloseRequestedEvent(event)
CloseRequestedEvent(event) ==
    [_preventDefault |-> FALSE, event |-> event.event,
     windowLabel |-> event.windowLabel, id |-> event.id]

\* evt.preventDefault()
PreventDefault(evt) == [evt EXCEPT !._preventDefault = TRUE]

\* evt.isPreventDefault()
IsPreventDefault(evt) == evt._preventDefault

\* The state of Promise.resolve(handler(evt)) once the handler's synchronous
\* part has ended: a throw leaves no promise at all.
PromiseOf(end) ==
    CASE end = "return" -> "fulfilled"
      [] end = "suspend" -> "pending"
      [] end = "throw" -> "threw"

\* Variant: the decision is taken without awaiting the handler's promise.
ThenReadyNoAwait(promise) == promise \in {"fulfilled", "pending"}

\* Variant: the callback runs however the handler ended, as with .finally.
ThenReadyAnySettle(promise) == promise \in {"fulfilled", "rejected", "threw"}

\* Promise.resolve(handler(evt)).then(...): the callback runs once the
\* handler's promise is fulfilled.
ThenReady(promise) == promise = "fulfilled"

\* close(): the command sent to the host.
CloseCommand(lbl, by) == [cmd |-> "plugin:window|close", label |-> lbl, by |-> by]

\* Variant: the callback closes without reading the flag.
CloseDecisionAlways(evt, lbl, by) == <<CloseCommand(lbl, by)>>

\* The .then callback of the negotiation: the commands it sends.
CloseDecision(evt, lbl, by) ==
    IF ~IsPreventDefault(evt) THEN <<CloseCommand(lbl, by)>> ELSE <<>>

\* Number of close commands negotiation i has sent.
Closes(i) ==
    Cardinality({k \in 1..Len(invoked) :
        invoked[k].cmd = "plugin:window|close" /\ invoked[k].by = i})

\* onCloseRequested(handler): listen on a remote event subscribes the wrapper
\* on the remote channel, scoped to this label.
OnCloseRequested(handler) ==
    /\ Len(closeSubs) + Len(negs) < MaxCloseOps
    /\ closeSubs' = Append(closeSubs, [handler |-> handler, active |-> TRUE])
    /\ rcalls' = rcalls \o RemoteCalls("listen", CloseRequested, label)
    /\ UNCHANGED <<label, bridgeVars, createVars, invoked, negs, cmdVars,
                   peerVars, subs, seen, comp, lookupVars, geomVars, passVars,
                   scanVars>>

\* The subscriptions whose wrapper is on the channel.
ActiveSubs == {s \in 1..Len(closeSubs) : closeSubs[s].active}

\* The host delivers a close-requested event to the wrapper of subscription
\* s: the wrapper builds the event and runs the handler's synchronous part.
Deliver(s, sync) ==
    /\ s \in ActiveSubs
    /\ Len(negs) < MaxNegs
    /\ Len(closeSubs) + Len(negs) < MaxCloseOps
    /\ LET evt0 == CloseRequestedEvent([event |-> CloseRequested,
                                        windowLabel |-> label,
                                        id |-> Len(negs) + 1])
           evt == IF sync.pd THEN PreventDefault(evt0) ELSE evt0
       IN  negs' = Append(negs, [handler |-> closeSubs[s].handler, sub |-> s,
                                 evt |-> evt,
                                 promise |-> PromiseOf(sync.end),
                                 state |-> "Requested",
                                 suspended |-> (sync.end = "suspend"),
                                 pdAt |-> IF sync.pd THEN "sync" ELSE "never",
                                 overlaps |-> \E j \in 1..Len(negs) :
                                                 negs[j].promise = "pending",
                                 detached |-> FALSE])
    /\ UNCHANGED <<label, bridgeVars, createVars, invoked, closeSubs, extVars>>

\* Where negotiation n stands: its handler is suspended at an await
\* ("pending"), its handler has ended (returned, fulfilled, thrown or rejected)
\* and the .then callback has not run ("ended"), or the callback has run
\* ("decided").
PhaseOf(n) ==
    IF n.state # "Requested" THEN "decided"
    ELSE IF n.promise = "pending" THEN "pending" ELSE "ended"

\* The record of a preventDefault call on the event of negotiation n: pdAt
\* keeps the point at which the flag was first set.
NotePreventDefault(n) ==
    [n EXCEPT !.evt = PreventDefault(@),
              !.pdAt = IF @ = "never" THEN PhaseOf(n) ELSE @]

\* Variant in which the negotiations share one flag.
HandlerPreventDefaultShared(i) ==
    /\ i \in 1..Len(negs)
    /\ negs' = [k \in 1..Len(negs) |->
                  IF k = i THEN NotePreventDefault(negs[k])
                  ELSE [negs[k] EXCEPT !.evt = PreventDefault(@)]]
    /\ UNCHANGED <<label, bridgeVars, createVars, invoked, closeSubs, extVars>>

\* Code that holds the event of negotiation i calls evt.preventDefault(): the
\* handler resumed from an await, a job the handler queued that runs after it
\* ended and before the .then callback, or anything later. The call has no
\* condition: it sets the flag.
HandlerPreventDefault(i) ==
    /\ i \in 1..Len(negs)
    /\ negs' = [negs EXCEPT ![i] = NotePreventDefault(@)]
    /\ UNCHANGED <<label, bridgeVars, createVars, invoked, closeSubs, extVars>>

\* A suspended handler finishes: its promise fulfils, or rejects.
HandlerSettle(i, ok) ==
    /\ i \in 1..Len(negs)
    /\ negs[i].promise = "pending"
    /\ negs' = [negs EXCEPT ![i].promise = IF ok THEN "fulfilled" ELSE "rejected"]
    /\ UNCHANGED <<label, bridgeVars, createVars, invoked, closeSubs, extVars>>

\* .then(() => { if (!evt.isPreventDefault()) return this.close(); })
NegotiationThen(i) ==
    /\ i \in 1..Len(negs)
    /\ ThenReady(negs[i].promise)
    /\ negs[i].state = "Requested"
    /\ invoked' = invoked \o CloseDecision(negs[i].evt, label, i)
    /\ negs' = [negs EXCEPT ![i].state =
                    IF IsPreventDefault(negs[i].evt) THEN "Cancelled" ELSE "Proceeding"]
    /\ UNCHANGED <<label, bridgeVars, createVars, closeSubs, extVars>>

\* The handler a client subscribes in the runs of one negotiation at a time:
\* a wrapper never looks at which function it was given, and a second call
\* with the same function is a second subscription. Two different functions
\* are subscribed under SpecFanOut.
CloseHandlers == {"h1"}

NextClose ==
    \/ \E h \in CloseHandlers : OnCloseRequested(h)
    \/ \E s \in 1..MaxCloseOps, sync \in SyncParts : Deliver(s, sync)
    \/ \E i \in 1..MaxNegs : HandlerPreventDefault(i)
    \/ \E i \in 1..MaxNegs, ok \in BOOLEAN : HandlerSettle(i, ok)
    \/ \E i \in 1..MaxNegs : NegotiationThen(i)

SpecClose == Init /\ [][NextClose]_vars

(* ------------------- properties of the close negotiation --------------- *)

\* The .then callback of negotiation i has run.
Resolved(i) == negs[i].state # "Requested"

\* preventDefault was called on the event of negotiation i before its .then
\* callback read the flag: in the handler's synchronous part, while the
\* handler was suspended, or after it ended and before the callback.
CalledPreventDefault(i) == negs[i].pdAt \in {"sync", "pending", "ended"}

\* C4: a negotiation never sends more than one close command; once its handler
\* has completed and the decision is taken, it has sent exactly one close
\* command (for this label) if preventDefault was not called on its event
\* before the decision, and none if it was; a call made only after the
\* decision sets the flag and leaves the one close command sent.
C4_CloseOutcome ==
    \A i \in 1..Len(negs) :
        /\ Closes(i) <= 1
        /\ ~Resolved(i) => Closes(i) = 0
        /\ Resolved(i) =>
              Closes(i) = IF CalledPreventDefault(i) THEN 0 ELSE 1
        /\ negs[i].pdAt = "decided" =>
              (IsPreventDefault(negs[i].evt) /\ negs[i].state = "Proceeding"
                                             /\ Closes(i) = 1)
        /\ \A k \in 1..Len(invoked) : invoked[k].label = label

C4_Witness ==
    \E i, j \in 1..Len(negs) :
        /\ Resolved(i) /\ negs[i].pdAt = "sync" /\ Closes(i) = 0
        /\ Resolved(j) /\ negs[j].pdAt = "never" /\ Closes(j) = 1
        /\ ~IsPreventDefault(negs[j].evt)

\* C5: no close command is sent for a negotiation whose handler is still
\* suspended, and a negotiation whose handler first called preventDefault
\* after a suspension point, before it settled, ends Cancelled, without a
\* close command.
C5_DecisionAfterSettle ==
    \A i \in 1..Len(negs) :
        /\ negs[i].promise = "pending" => (Closes(i) = 0 /\ ~Resolved(i))
        /\ (negs[i].pdAt = "pending" /\ Resolved(i)) =>
              (negs[i].state = "Cancelled" /\ Closes(i) = 0)

C5_Witness ==
    \E i \in 1..Len(negs) :
        /\ negs[i].suspended
        /\ negs[i].pdAt = "pending"
        /\ negs[i].state = "Cancelled"
        /\ Closes(i) = 0

\* C15: every delivery has its own negotiation and its own event, whose flag
\* starts false and is set only by a preventDefault call on that event; a step
\* that sets the flag of one negotiation changes no other negotiation; and the
\* number of close commands sent is the number of negotiations that have
\* resolved and on whose event preventDefault was not called before the
\* decision.
C15_IndependentNegotiations ==
    [][/\ \A i \in 1..Len(negs') :
             /\ negs'[i].evt._preventDefault = (negs'[i].pdAt # "never")
             /\ negs'[i].evt.id = i
       /\ \A i \in (Len(negs) + 1)..Len(negs') :
             negs'[i].evt._preventDefault = (negs'[i].pdAt = "sync")
       /\ \A i \in 1..Len(negs) :
             negs'[i].evt # negs[i].evt =>
                 \A j \in 1..Len(negs) : j # i => negs'[j] = negs[j]
       /\ Cardinality({k \in 1..Len(invoked') :
                          invoked'[k].cmd = "plugin:window|close"}) =
          Cardinality({i \in 1..Len(negs') :
                          negs'[i].state # "Requested" /\
                          negs'[i].pdAt \in {"never", "decided"}})]_vars

C15_Witness ==
    /\ Len(negs) = 2
    /\ negs[2].overlaps
    /\ negs[1].pdAt = "pending" /\ negs[1].state = "Cancelled"
    /\ negs[2].pdAt = "never" /\ negs[2].state = "Proceeding"
    /\ Closes(1) = 0 /\ Closes(2) = 1

\* The handler run of negotiation i failed: it threw in its synchronous part,
\* or the promise it returned rejected.
HandlerFailed(i) == negs[i].promise \in {"threw", "rejected"}

\* C32: a negotiation whose handler failed, by a synchronous throw or by a
\* rejected promise, sends no close command and takes no decision, whether or
\* not preventDefault was called; a negotiation that has sent a close command
\* is one whose handler completed successfully and whose flag was still false
\* when the decision was read; and every step that sends a close command for
\* a negotiation starts from a fulfilled handler promise and a false flag.
C32_FailedHandlerNoClose ==
    /\ [](\A i \in 1..Len(negs) :
            /\ HandlerFailed(i) => (Closes(i) = 0 /\ ~Resolved(i))
            /\ Closes(i) > 0 =>
                  (negs[i].promise = "fulfilled" /\ ~CalledPreventDefault(i)))
    /\ [][\A k \in (Len(invoked) + 1)..Len(invoked') :
             /\ invoked'[k].cmd = "plugin:window|close"
             /\ invoked'[k].by \in 1..Len(negs)
             /\ negs[invoked'[k].by].promise = "fulfilled"
             /\ ~IsPreventDefault(negs[invoked'[k].by].evt)]_vars

C32_Witness ==
    /\ Len(negs) = 2
    /\ negs[1].promise = "threw" /\ negs[1].pdAt = "never"
    /\ negs[2].promise = "rejected" /\ negs[2].pdAt = "never"
    /\ negs[2].suspended
    /\ Closes(1) = 0 /\ Closes(2) = 0

(* --------------- one close-requested event, several handlers ----------- *)

\* The id the host gives the next close-requested event it delivers.
EventId == IF negs = <<>> THEN 1 ELSE negs[Len(negs)].evt.id + 1

\* The orders in which the channel may call the subscribed wrappers.
Orders(S) ==
    {o \in [1..Cardinality(S) -> S] : \A i, j \in 1..Cardinality(S) :
                                          o[i] = o[j] => i = j}

\* Variant in which the wrappers of one delivery share the event object.
StartedNegotiationsOneEvent(order, syncs, id, lbl) ==
    [k \in 1..Len(order) |->
        LET sync == syncs[order[k]]
            evt0 == CloseRequestedEvent([event |-> CloseRequested,
                                         windowLabel |-> lbl, id |-> id])
        IN  [handler |-> closeSubs[order[k]].handler,
             sub |-> order[k],
             evt |-> IF \E j \in 1..Len(order) : syncs[order[j]].pd
                     THEN PreventDefault(evt0) ELSE evt0,
             promise |-> PromiseOf(sync.end),
             state |-> "Requested",
             suspended |-> (sync.end = "suspend"),
             pdAt |-> IF sync.pd THEN "sync" ELSE "never",
             overlaps |-> \/ \E j \in 1..Len(negs) : negs[j].promise = "pending"
                          \/ \E j \in 1..(k - 1) : syncs[order[j]].end = "suspend",
             detached |-> FALSE]]

\* The wrappers the channel calls for one event, in order: each runs
\* const evt = new CloseRequestedEvent(event) and then its own handler.
StartedNegotiations(order, syncs, id, lbl) ==
    [k \in 1..Len(order) |->
        LET sync == syncs[order[k]]
            evt0 == CloseRequestedEvent([event |-> CloseRequested,
                                         windowLabel |-> lbl, id |-> id])
        IN  [handler |-> closeSubs[order[k]].handler,
             sub |-> order[k],
             evt |-> IF sync.pd THEN PreventDefault(evt0) ELSE evt0,
             promise |-> PromiseOf(sync.end),
             state |-> "Requested",
             suspended |-> (sync.end = "suspend"),
             pdAt |-> IF sync.pd THEN "sync" ELSE "never",
             overlaps |-> \/ \E j \in 1..Len(negs) : negs[j].promise = "pending"
                          \/ \E j \in 1..(k - 1) : syncs[order[j]].end = "suspend",
             detached |-> FALSE]]

\* The host delivers one close-requested event: the channel calls the wrapper
\* of every subscription, and each wrapper runs its handler's synchronous part.
DeliverAll(order, syncs) ==
    /\ ActiveSubs # {}
    /\ Len(negs) + Cardinality(ActiveSubs) <= MaxNegs
    /\ Len(closeSubs) + Len(negs) + Cardinality(ActiveSubs) <= MaxCloseOps
    /\ negs' = negs \o StartedNegotiations(order, syncs, EventId, label)
    /\ UNCHANGED <<label, bridgeVars, createVars, invoked, closeSubs, extVars>>

NextFanOut ==
    \/ \E h \in Handlers : OnCloseRequested(h)
    \/ /\ Len(negs) + Cardinality(ActiveSubs) <= MaxNegs
       /\ \E order \in Orders(ActiveSubs), syncs \in [ActiveSubs -> SyncParts] :
             DeliverAll(order, syncs)
    \/ \E i \in 1..MaxNegs : HandlerPreventDefault(i)
    \/ \E i \in 1..MaxNegs, ok \in BOOLEAN : HandlerSettle(i, ok)
    \/ \E i \in 1..MaxNegs : NegotiationThen(i)

SpecFanOut == Init /\ [][NextFanOut]_vars

\* C33: one delivered close-requested event starts one negotiation for every
\* subscription made through onCloseRequested, running that subscription's
\* handler, each with an event of its own carrying the delivered event's
\* name, label and id, so two subscribed handlers give two negotiations; the
\* flag of a negotiation is set only by a preventDefault call on its own
\* event, and every negotiation that has taken its decision has sent one close
\* command if preventDefault was not called on its event before the decision,
\* whatever was called on the other's, and none if it was.
C33_OneNegotiationPerHandler ==
    /\ [](\A i \in 1..Len(negs) :
            /\ IsPreventDefault(negs[i].evt) = (negs[i].pdAt # "never")
            /\ Resolved(i) =>
                  Closes(i) = IF CalledPreventDefault(i) THEN 0 ELSE 1)
    /\ [][/\ Len(negs') > Len(negs) =>
                /\ Len(negs') = Len(negs) + Cardinality(ActiveSubs)
                /\ {negs'[i].sub : i \in (Len(negs) + 1)..Len(negs')} =
                       ActiveSubs
                /\ \A i \in (Len(negs) + 1)..Len(negs') :
                       /\ negs'[i].handler = closeSubs[negs'[i].sub].handler
                       /\ negs'[i].evt.id = EventId
                       /\ negs'[i].evt.event = CloseRequested
                       /\ negs'[i].evt.windowLabel = label
          /\ \A i \in 1..Len(negs) :
                negs'[i].evt # negs[i].evt =>
                    \A j \in 1..Len(negs) : j # i => negs'[j] = negs[j]]_vars

C33_Witness ==
    /\ Len(negs) = 2
    /\ negs[1].evt.id = 1 /\ negs[2].evt.id = 1
    /\ negs[1].handler # negs[2].handler
    /\ CalledPreventDefault(1) /\ negs[1].state = "Cancelled" /\ Closes(1) = 0
    /\ negs[2].pdAt = "never" /\ negs[2].state = "Proceeding" /\ Closes(2) = 1

(* ------------- unlisten of a close subscription in mid-negotiation ----- *)

\* Variant in which the unlisten closure also abandons the negotiations its
\* subscription has started and not yet decided.
AfterUnlistenCancelling(ns, s) ==
    [i \in 1..Len(ns) |->
        IF ns[i].sub = s /\ ns[i].state = "Requested"
        THEN [ns[i] EXCEPT !.detached = TRUE, !.promise = "rejected"]
        ELSE ns[i]]

\* The negotiations after the unlisten closure of subscription s was
\* called: the closure only removes the wrapper from the channel, the promise
\* chains the wrapper has started are untouched. Those still undecided are
\* marked for the record.
AfterUnlisten(ns, s) ==
    [i \in 1..Len(ns) |->
        IF ns[i].sub = s /\ ns[i].state = "Requested"
        THEN [ns[i] EXCEPT !.detached = TRUE]
        ELSE ns[i]]

\* The client calls the unlisten closure the s-th onCloseRequested call
\* resolved to: the wrapper of that subscription leaves the channel.
CloseUnlisten(s) ==
    /\ s \in ActiveSubs
    /\ closeSubs' = [closeSubs EXCEPT ![s].active = FALSE]
    /\ negs' = AfterUnlisten(negs, s)
    /\ UNCHANGED <<label, bridgeVars, createVars, invoked, extVars>>

\* The subscription whose unlisten closure the client calls: the first one,
\* so that a later subscription is seen to stay on the channel.
Detaching == {1}

\* The synchronous parts of a handler that goes on to complete: it returns,
\* or suspends at an await and is later fulfilled. Handlers that throw or
\* reject are followed under SpecClose.
ChainedSyncParts == {sync \in SyncParts : sync.end # "throw"}

NextDetach ==
    \/ \E h \in CloseHandlers : OnCloseRequested(h)
    \/ \E s \in 1..MaxCloseOps, sync \in ChainedSyncParts : Deliver(s, sync)
    \/ \E i \in 1..MaxNegs : HandlerPreventDefault(i)
    \/ \E i \in 1..MaxNegs : HandlerSettle(i, TRUE)
    \/ \E i \in 1..MaxNegs : NegotiationThen(i)
    \/ \E s \in Detaching : CloseUnlisten(s)

SpecDetach == Init /\ [][NextDetach]_vars

\* Negotiation i in ns without its record of the unlisten call.
Undetached(ns, i) == [ns[i] EXCEPT !.detached = FALSE]

PlainMethods ==
    {"scaleFactor", "innerPosition", "outerPosition", "innerSize",
     "outerSize", "isFullscreen", "isMinimized", "isMaximized", "isFocused",
     "isDecorated", "isResizable", "isMaximizable", "isMinimizable",
     "isClosable", "isVisible", "title", "theme", "center", "maximize",
     "unmaximize", "toggleMaximize", "minimize", "unminimize", "show",
     "hide", "close", "setFocus", "startDragging"}

\* The methods that send their argument as it is: { label, value: argument }.
ValueMethods ==
    {"setResizable", "setMaximizable", "setMinimizable", "setClosable",
     "setTitle", "setDecorations", "setShadow", "setEffects",
     "setAlwaysOnTop", "setContentProtected", "setFullscreen",
     "setSkipTaskbar", "setCursorGrab", "setCursorVisible", "setCursorIcon",
     "setIgnoreCursorEvents"}

\* The methods that build the value of the request from their argument, or
\* without one (clearEffects).
BuiltValueMethods == {"requestUserAttention", "setIcon", "clearEffects"}

StrictGeometry == {"setSize", "setPosition", "setCursorPosition"}
OptionalGeometry == {"setMinSize", "setMaxSize"}

\* The query and mutator methods of Window.
WindowMethods ==
    PlainMethods \cup ValueMethods \cup BuiltValueMethods \cup StrictGeometry
        \cup OptionalGeometry

\* The monitor functions of the module: they invoke with no arguments object.
ModuleFunctions == {"currentMonitor", "primaryMonitor", "availableMonitors"}

\* Everything the client calls that sends a request to the host.
Methods == WindowMethods \cup ModuleFunctions

\* The first argument of __TAURI_INVOKE__ in each method.
MethodCmd(method) ==
    CASE method = "scaleFactor" -> "plugin:window|scale_factor"
      [] method = "innerPosition" -> "plugin:window|inner_position"
      [] method = "outerPosition" -> "plugin:window|outer_position"
      [] method = "innerSize" -> "plugin:window|inner_size"
      [] method = "outerSize" -> "plugin:window|outer_size"
      [] method = "isFullscreen" -> "plugin:window|is_fullscreen"
      [] method = "isMinimized" -> "plugin:window|is_minimized"
      [] method = "isMaximized" -> "plugin:window|is_maximized"
      [] method = "isFocused" -> "plugin:window|is_focused"
      [] method = "isDecorated" -> "plugin:window|is_decorated"
      [] method = "isResizable" -> "plugin:window|is_resizable"
      [] method = "isMaximizable" -> "plugin:window|is_maximizable"
      [] method = "isMinimizable" -> "plugin:window|is_minimizable"
      [] method = "isClosable" -> "plugin:window|is_closable"
      [] method = "isVisible" -> "plugin:window|is_visible"
      [] method = "title" -> "plugin:window|title"
      [] method = "theme" -> "plugin:window|theme"
      [] method = "center" -> "plugin:window|center"
      [] method = "maximize" -> "plugin:window|maximize"
      [] method = "unmaximize" -> "plugin:window|unmaximize"
      [] method = "toggleMaximize" -> "plugin:window|toggle_maximize"
      [] method = "minimize" -> "plugin:window|minimize"
      [] method = "unminimize" -> "plugin:window|unminimize"
      [] method = "show" -> "plugin:window|show"
      [] method = "hide" -> "plugin:window|hide"
      [] method = "close" -> "plugin:window|close"
      [] method = "setFocus" -> "plugin:window|set_focus"
      [] method = "startDragging" -> "plugin:window|start_dragging"
      [] method = "setResizable" -> "plugin:window|set_resizable"
      [] method = "setMaximizable" -> "plugin:window|set_maximizable"
      [] method = "setMinimizable" -> "plugin:window|set_minimizable"
      [] method = "setClosable" -> "plugin:window|set_closable"
      [] method = "setTitle" -> "plugin:window|set_title"
      [] method = "setDecorations" -> "plugin:window|set_decorations"
      [] method = "setShadow" -> "plugin:window|set_shadow"
      [] method = "setEffects" -> "plugin:window|set_effects"
      [] method = "setAlwaysOnTop" -> "plugin:window|set_always_on_top"
      [] method = "setContentProtected" -> "plugin:window|set_content_protected"
      [] method = "setFullscreen" -> "plugin:window|set_fullscreen"
      [] method = "setSkipTaskbar" -> "plugin:window|set_skip_taskbar"
      [] method = "setCursorGrab" -> "plugin:window|set_cursor_grab"
      [] method = "setCursorVisible" -> "plugin:window|set_cursor_visible"
      [] method = "setCursorIcon" -> "plugin:window|set_cursor_icon"
      [] method = "setIgnoreCursorEvents" -> "plugin:window|set_ignore_cursor_events"
      [] method = "requestUserAttention" -> "plugin:window|request_user_attention"
      [] method = "setIcon" -> "plugin:window|set_icon"
      [] method = "setSize" -> "plugin:window|set_size"
      [] method = "setMinSize" -> "plugin:window|set_min_size"
      [] method = "setMaxSize" -> "plugin:window|set_max_size"
      [] method = "setPosition" -> "plugin:window|set_position"
      [] method = "setCursorPosition" -> "plugin:window|set_cursor_position"
      [] method = "currentMonitor" -> "plugin:window|current_monitor"
      [] method = "primaryMonitor" -> "plugin:window|primary_monitor"
      [] method = "availableMonitors" -> "plugin:window|available_monitors"
      [] method = "clearEffects" -> "plugin:window|set_effects"

\* A method argument: null / undefined (type "null"), or an object with a type
\* field and two components (width and height, or x and y).
NullArg == [type |-> "null", a |-> 0, b |-> 0]
GeometryArgs ==
    {NullArg} \cup {[type |-> t, a |-> 1, b |-> 2] : t \in {"Logical", "Physical", "Other"}}

\* A plain argument value (a boolean, a title, an icon name, an effects object).
GivenArg == [type |-> "Given", a |-> 1, b |-> 0]

\* var UserAttentionType: the numbers of the two attention types.
UserAttentionType == [Critical |-> 1, Informational |-> 2]

\* requestUserAttention(requestType): nothing, or one of the two types.
AttentionArgs ==
    {NullArg, [GivenArg EXCEPT !.a = UserAttentionType.Critical],
     [GivenArg EXCEPT !.a = UserAttentionType.Informational]}

\* setIcon(icon): nothing, a path string, or an array of bytes (here two).
IconArgs ==
    {NullArg, [type |-> "String", a |-> 1, b |-> 0], [type |-> "Bytes", a |-> 1, b |-> 2]}

ArgsOf(method) ==
    CASE method \in StrictGeometry \cup OptionalGeometry -> GeometryArgs
      [] method \in ValueMethods -> {GivenArg}
      [] method = "requestUserAttention" -> AttentionArgs
      [] method = "setIcon" -> IconArgs
      [] OTHER -> {NullArg}

\* JS truthiness of the argument.
Truthy(arg) == arg.type # "null"

\* Variant of the guard that only looks at a given value's tag.
StrictRejectsTagOnly(arg) ==
    Truthy(arg) /\ arg.type # "Logical" /\ arg.type # "Physical"

\* The guard of setSize, setPosition and setCursorPosition:
\* !size || (size.type !== "Logical" && size.type !== "Physical")
StrictRejects(arg) ==
    ~Truthy(arg) \/ (arg.type # "Logical" /\ arg.type # "Physical")

\* Variant of the guard of setMinSize and setMaxSize that refuses no value.
OptionalRejectsNoValue(arg) ==
    ~Truthy(arg) \/ (arg.type # "Logical" /\ arg.type # "Physical")

\* The guard of setMinSize and setMaxSize:
\* size && size.type !== "Logical" && size.type !== "Physical"
OptionalRejects(arg) ==
    Truthy(arg) /\ arg.type # "Logical" /\ arg.type # "Physical"

\* setIcon builds its value with Array.from(icon) when icon is not a string:
\* Array.from(undefined) and Array.from(null) throw a TypeError.
IconRejects(arg) == ~Truthy(arg)

\* The method throws before invoking.
Rejects(method, arg) ==
    CASE method \in StrictGeometry -> StrictRejects(arg)
      [] method \in OptionalGeometry -> OptionalRejects(arg)
      [] method = "setIcon" -> IconRejects(arg)
      [] OTHER -> FALSE

\* What a throwing method throws: new Error(...) from the geometry checks, the
\* TypeError of Array.from from setIcon.
Thrown(method) == IF method = "setIcon" THEN "TypeError" ELSE "Error"

\* The value requestUserAttention sends: null for no type, { type: "Critical" }
\* for UserAttentionType.Critical, { type: "Informational" } for anything else.
AttentionValue(arg) ==
    IF ~Truthy(arg) THEN [type |-> "null", data |-> <<>>]
    ELSE IF arg.a = UserAttentionType.Critical
         THEN [type |-> "Critical", data |-> <<>>]
         ELSE [type |-> "Informational", data |-> <<>>]

\* The value setIcon sends: typeof icon === "string" ? icon : Array.from(icon)
IconValue(arg) ==
    IF arg.type = "String" THEN [type |-> "String", data |-> <<arg.a>>]
    ELSE [type |-> "Array", data |-> <<arg.a, arg.b>>]

\* The value field of the request: absent for the methods and functions that
\* send none, the argument itself for the methods that pass it on, null for
\* clearEffects and for an unset constraint, else
\* { type, data: { width, height } } (or { x, y }).
ValueOf(method, arg) ==
    CASE method \in PlainMethods \cup ModuleFunctions ->
             [type |-> "absent", data |-> <<>>]
      [] method \in ValueMethods -> [type |-> arg.type, data |-> <<arg.a>>]
      [] method = "requestUserAttention" -> AttentionValue(arg)
      [] method = "setIcon" -> IconValue(arg)
      [] method = "clearEffects" -> [type |-> "null", data |-> <<>>]
      [] OTHER -> IF ~Truthy(arg) THEN [type |-> "null", data |-> <<>>]
                  ELSE [type |-> arg.type, data |-> <<arg.a, arg.b>>]

\* The label field of the request: this.label, absent for a module function.
LabelOf(method, lbl) == IF method \in ModuleFunctions THEN "absent" ELSE lbl

\* window.__TAURI_INVOKE__(cmd, { label, value }): one request, not yet answered.
Invoke(cmd, lbl, value, call) ==
    <<[cmd |-> cmd, label |-> lbl, value |-> value, call |-> call, reply |-> "none"]>>

\* Variant of a method that invokes again after the first invoke.
RequestsTwice(method, lbl, arg, call) ==
    IF Rejects(method, arg) THEN <<>>
    ELSE Invoke(MethodCmd(method), LabelOf(method, lbl), ValueOf(method, arg), call)
            \o Invoke(MethodCmd(method), LabelOf(method, lbl), ValueOf(method, arg),
                      call)

\* The requests one call of a method sends to the host.
Requests(method, lbl, arg, call) ==
    IF Rejects(method, arg) THEN <<>>
    ELSE Invoke(MethodCmd(method), LabelOf(method, lbl), ValueOf(method, arg), call)

\* The state of the promise a method returns, given what its request got.
ResultOf(reply) ==
    CASE reply = "none" -> [status |-> "pending", reason |-> "none"]
      [] reply = "ok" -> [status |-> "resolved", reason |-> "none"]
      [] OTHER -> [status |-> "rejected", reason |-> reply]

\* The reasons the host gives when it rejects a command.
HostReasons == {"denied"}

\* The client calls a method of the handle.
Call(method, arg) ==
    /\ Len(mcalls) < MaxCalls
    /\ LET reqs == Requests(method, label, arg, Len(mcalls) + 1)
       IN  /\ sent' = sent \o reqs
           /\ mcalls' = Append(mcalls,
                 [method |-> method, arg |-> arg,
                  result |-> IF reqs = <<>>
                             THEN [status |-> "invalid", reason |-> Thrown(method)]
                             ELSE ResultOf("none")])
    /\ UNCHANGED <<label, bridgeVars, createVars, invoked, closeVars,
                   peerVars, remoteVars, lookupVars, geomVars, passVars,
                   scanVars>>

\* The host answers request k: it resolves it, or rejects it with a reason.
HostReply(k, reply) ==
    /\ k \in 1..Len(sent)
    /\ sent[k].reply = "none"
    /\ sent' = [sent EXCEPT ![k].reply = reply]
    /\ mcalls' = [mcalls EXCEPT ![sent[k].call].result =
                      IF @.status = "pending" THEN ResultOf(reply) ELSE @]
    /\ UNCHANGED <<label, bridgeVars, createVars, invoked, closeVars,
                   peerVars, remoteVars, lookupVars, geomVars, passVars,
                   scanVars>>

NextCmd ==
    \/ \E m \in Methods : \E arg \in ArgsOf(m) : Call(m, arg)
    \/ \E k \in 1..(2 * MaxCalls), reply \in {"ok"} \cup HostReasons : HostReply(k, reply)

SpecCmd == Init /\ [][NextCmd]_vars

(* ------------------ properties of the command invocations -------------- *)

\* The requests sent by method call i, in order.
RequestsOfCall(i) == SelectSeq(sent, LAMBDA r : r.call = i)

RecognizedTag(arg) == arg.type \in {"Logical", "Physical"}

\* C11: setSize, setPosition and setCursorPosition called with no value or with
\* a value of unrecognized tag, and setMinSize / setMaxSize called with a
\* non-null value of unrecognized tag, fail and send nothing; called with a
\* value tagged Logical or Physical they send exactly one request, for this
\* label, carrying the tag and the two components.
C11_GeometryValidation ==
    \A i \in 1..Len(mcalls) :
        LET c == mcalls[i]
            reqs == RequestsOfCall(i)
        IN  c.method \in StrictGeometry \cup OptionalGeometry =>
              /\ (~RecognizedTag(c.arg)
                    /\ (c.method \in StrictGeometry \/ c.arg.type # "null")) =>
                    (c.result.status = "invalid" /\ reqs = <<>>)
              /\ RecognizedTag(c.arg) =>
                    /\ Len(reqs) = 1
                    /\ c.result.status # "invalid"
                    /\ reqs[1].cmd = MethodCmd(c.method)
                    /\ reqs[1].label = label
                    /\ reqs[1].value = [type |-> c.arg.type, data |-> <<c.arg.a, c.arg.b>>]

C11_Witness ==
    /\ Len(mcalls) = 1
    /\ mcalls[1].method = "setPosition"
    /\ mcalls[1].arg.type = "Physical"
    /\ mcalls[1].result.status = "resolved"
    /\ Len(sent) = 1
    /\ sent[1].cmd = "plugin:window|set_position"
    /\ sent[1].value = [type |-> "Physical", data |-> <<1, 2>>]

\* C17: a method call sends at most one request; a call whose argument does
\* not make the method throw sends exactly one, carrying this.label, and the
\* only calls that throw are a geometry mutator given a value it refuses and
\* setIcon given no icon; when the host rejects the request the call fails
\* with the host's reason and nothing is sent again.
C17_AtMostOnce ==
    \A i \in 1..Len(mcalls) :
        LET c == mcalls[i]
            reqs == RequestsOfCall(i)
        IN  /\ Len(reqs) <= 1
            /\ c.result.status = "invalid" <=> reqs = <<>>
            /\ reqs = <<>> <=>
                  \/ c.method \in StrictGeometry /\ ~RecognizedTag(c.arg)
                  \/ c.method \in OptionalGeometry /\ ~RecognizedTag(c.arg)
                                                  /\ c.arg.type # "null"
                  \/ c.method = "setIcon" /\ c.arg.type = "null"
            /\ c.method \in PlainMethods => Len(reqs) = 1
            /\ \A k \in 1..Len(reqs) :
                  c.method \in WindowMethods => reqs[k].label = label
            /\ Len(reqs) = 1 => c.result = ResultOf(reqs[1].reply)
            /\ c.result.status = "rejected" =>
                  (Len(reqs) = 1 /\ c.result.reason = reqs[1].reply
                                 /\ c.result.reason \in HostReasons)

C17_Witness ==
    \E i \in 1..Len(mcalls) :
        /\ mcalls[i].method = "close"
        /\ mcalls[i].result = [status |-> "rejected", reason |-> "denied"]
        /\ Len(RequestsOfCall(i)) = 1
        /\ Len(mcalls) = MaxCalls

\* C28: setMinSize and setMaxSize called with no value send exactly one
\* request, for this label, whose value is null, and do not fail validation;
\* setSize called with no value fails and sends nothing.
C28_UnsetConstraint ==
    \A i \in 1..Len(mcalls) :
        LET c == mcalls[i]
            reqs == RequestsOfCall(i)
        IN  c.arg.type = "null" =>
              /\ c.method \in {"setMinSize", "setMaxSize"} =>
                    /\ c.result.status # "invalid"
                    /\ Len(reqs) = 1
                    /\ reqs[1].cmd = MethodCmd(c.method)
                    /\ reqs[1].label = label
                    /\ reqs[1].value = [type |-> "null", data |-> <<>>]
              /\ c.method = "setSize" =>
                    (c.result.status = "invalid" /\ reqs = <<>>)

C28_Witness ==
    /\ Len(mcalls) = 1
    /\ mcalls[1].method = "setMaxSize"
    /\ mcalls[1].arg.type = "null"
    /\ mcalls[1].result.status = "pending"
    /\ Len(sent) = 1
    /\ sent[1].cmd = "plugin:window|set_max_size"
    /\ sent[1].value.type = "null"

(* ------------------ two instances with the same label ------------------ *)

\* Number of listen/once calls the client makes on the two instances together.
MaxPeerRegs == 2

\* "a" is the handle of the other sections, "b" the second instance.
Instances == {"a", "b"}

\* new Window(label, ...) has run for the instance.
Made(who) == who = "a" \/ peer.made

\* Variant in which every instance reads one process-wide table.
TableShared(who) == listeners

\* this.listeners of an instance.
TableOf(who) == IF who = "a" THEN listeners ELSE peer.listeners

\* The unlisten closures the client holds for an event of an instance.
IssuedOn(who, event) ==
    IF who = "a" THEN Issued(event)
    ELSE {h \in Handlers : <<event, h>> \in peer.issued}

\* A handler only calls closures of the instance that the client holds; what a
\* handler outside the instance's list would do is left out (it returns).
BehavioursOn(who, event) ==
    {beh \in [Handlers -> Behaviours] :
        \A h \in Handlers :
            /\ beh[h][1] = "unlisten" => beh[h][2] \in IssuedOn(who, event)
            /\ h \notin Range(ListOf(TableOf(who), event)) => beh[h][1] = "ret"}

\* this.listeners = ls on an instance; nothing is written anywhere else.
StoreTable(who, ls) ==
    IF who = "a"
    THEN listeners' = ls /\ peer' = [peer EXCEPT !.issued = peer.issued]
    ELSE peer' = [peer EXCEPT !.listeners = ls] /\ listeners' = listeners

\* A second new Window(label, { skip: true }) with the label of the first, as
\* a second getCurrent() makes: this.listeners = Object.create(null).
NewPeer ==
    /\ ~peer.made
    /\ peer' = [made |-> TRUE, listeners |-> [e \in {} |-> <<>>], issued |-> {}]
    /\ lastOn' = "b"
    /\ last' = [NoOp EXCEPT !.op = "new"]
    /\ UNCHANGED <<label, listeners, regKind, unlCalled, nRegs, createVars, invoked,
                   closeVars, cmdVars, remoteVars, lookupVars, geomVars, passVars,
                   scanVars>>

\* who.listen(event, handler), event local.
ListenOn(who, event, handler) ==
    /\ Made(who)
    /\ nRegs < MaxPeerRegs
    /\ nRegs' = nRegs + 1
    /\ IF who = "a"
       THEN /\ listeners' = HandleTauriEvent(TableOf(who), event, handler)
            /\ regKind' = [regKind EXCEPT ![event][handler] = NextKind(@, "listen")]
            /\ peer' = peer
       ELSE /\ peer' = [peer EXCEPT
                          !.listeners = HandleTauriEvent(TableOf(who), event, handler),
                          !.issued = @ \cup {<<event, handler>>}]
            /\ UNCHANGED <<listeners, regKind>>
    /\ lastOn' = who
    /\ last' = [NoOp EXCEPT !.op = "listen", !.event = event, !.handler = handler]
    /\ UNCHANGED <<label, unlCalled, createVars, invoked, closeVars, cmdVars,
                   remoteVars, lookupVars, geomVars, passVars,
                   scanVars>>

\* who.once(event, handler), event local.
OnceOn(who, event, handler) ==
    /\ Made(who)
    /\ nRegs < MaxPeerRegs
    /\ nRegs' = nRegs + 1
    /\ IF who = "a"
       THEN /\ listeners' = HandleTauriEvent(TableOf(who), event, handler)
            /\ regKind' = [regKind EXCEPT ![event][handler] = NextKind(@, "once")]
            /\ peer' = peer
       ELSE /\ peer' = [peer EXCEPT
                          !.listeners = HandleTauriEvent(TableOf(who), event, handler),
                          !.issued = @ \cup {<<event, handler>>}]
            /\ UNCHANGED <<listeners, regKind>>
    /\ lastOn' = who
    /\ last' = [NoOp EXCEPT !.op = "once", !.event = event, !.handler = handler]
    /\ UNCHANGED <<label, unlCalled, createVars, invoked, closeVars, cmdVars,
                   remoteVars, lookupVars, geomVars, passVars,
                   scanVars>>

\* The client calls the closure returned by who.listen/once(event, handler).
UnlistenOn(who, event, handler) ==
    /\ Made(who)
    /\ handler \in IssuedOn(who, event)
    /\ StoreTable(who, UnlistenLocal(TableOf(who), event, handler))
    /\ lastOn' = who
    /\ last' = [NoOp EXCEPT !.op = "unlisten", !.event = event, !.handler = handler,
                            !.start = ListOf(TableOf(who), event)]
    /\ UNCHANGED <<label, regKind, unlCalled, nRegs, createVars, invoked, closeVars,
                   cmdVars, remoteVars, lookupVars, geomVars, passVars,
                   scanVars>>

\* The client calls who.emit(event, payload), event local.
EmitOn(who, event, payload, beh) ==
    /\ Made(who)
    /\ LET r == EmitLocal(TableOf(who), event, label, payload, beh)
       IN  /\ StoreTable(who, r.listeners)
           /\ last' = [NoOp EXCEPT !.op = "emit", !.by = "client", !.event = event,
                                   !.payload = payload,
                                   !.start = ListOf(TableOf(who), event),
                                   !.calls = r.calls, !.threw = r.threw,
                                   !.unl = r.unl,
                                   !.throwers =
                                       Throwers(ListOf(TableOf(who), event), beh)]
    /\ lastOn' = who
    /\ UNCHANGED <<label, regKind, unlCalled, nRegs, createVars, invoked,
                   closeVars, cmdVars, remoteVars, lookupVars, geomVars, passVars,
                   scanVars>>

NextTwo ==
    \/ NewPeer
    \/ \E who \in Instances, e \in LocalEvents, h \in Handlers : ListenOn(who, e, h)
    \/ \E who \in Instances, e \in LocalEvents, h \in Handlers : OnceOn(who, e, h)
    \/ \E who \in Instances, e \in LocalEvents, h \in Handlers : UnlistenOn(who, e, h)
    \/ \E who \in Instances, e \in LocalEvents, p \in Payloads :
          \E beh \in BehavioursOn(who, e) : EmitOn(who, e, p, beh)

SpecTwo == Init /\ [][NextTwo]_vars

\* C13: with two instances of one label, an operation on one instance leaves
\* the listener table of the other as it was, and an emit on an instance
\* invokes only handlers that were registered on that instance.
C13_PrivateTables ==
    [][/\ lastOn' = "a" => peer'.listeners = peer.listeners
       /\ lastOn' = "b" => listeners' = listeners
       /\ last'.op = "emit" =>
             CalledHandlers(last'.calls) \subseteq IssuedOn(lastOn', last'.event)]_vars

C13_Witness ==
    /\ peer.made
    /\ lastOn = "b"
    /\ last.op = "emit"
    /\ last.event = "tauri://created"
    /\ ListOf(listeners, "tauri://created") = <<"h1">>
    /\ ListOf(peer.listeners, "tauri://created") = <<"h2">>
    /\ Invoked(last.calls) = <<"h2">>

(* ------------------------- the two event paths ------------------------- *)

\* Number of local registrations and remote channel calls, taken together.
MaxRouteOps == 3

\* Event names that are not in localTauriEvents.
RemoteEvents == {"tauri://resize", "app-event"}

Events == LocalEvents \cup RemoteEvents

\* Room for the operation within the bounds.
RouteRoom(event, registers) ==
    (registers \/ ~IsLocal(event)) => nRegs + Len(rcalls) < MaxRouteOps

\* listen(event, handler), any event name.
RouteListen(event, handler) ==
    /\ RouteRoom(event, TRUE)
    /\ listeners' = HandleTauriEvent(listeners, event, handler)
    /\ rcalls' = rcalls \o RemoteCalls("listen", event, label)
    /\ nRegs' = IF IsLocal(event) THEN nRegs + 1 ELSE nRegs
    /\ regKind' = IF IsLocal(event)
                  THEN [regKind EXCEPT ![event][handler] = NextKind(@, "listen")]
                  ELSE regKind
    /\ last' = [NoOp EXCEPT !.op = "listen", !.event = event, !.handler = handler]
    /\ UNCHANGED <<label, unlCalled, createVars, invoked, closeVars, cmdVars,
                   peerVars, subs, seen, comp, lookupVars, geomVars, passVars,
                   scanVars>>

\* once(event, handler), any event name.
RouteOnce(event, handler) ==
    /\ RouteRoom(event, TRUE)
    /\ listeners' = HandleTauriEvent(listeners, event, handler)
    /\ rcalls' = rcalls \o RemoteCalls("once", event, label)
    /\ nRegs' = IF IsLocal(event) THEN nRegs + 1 ELSE nRegs
    /\ regKind' = IF IsLocal(event)
                  THEN [regKind EXCEPT ![event][handler] = NextKind(@, "once")]
                  ELSE regKind
    /\ last' = [NoOp EXCEPT !.op = "once", !.event = event, !.handler = handler]
    /\ UNCHANGED <<label, unlCalled, createVars, invoked, closeVars, cmdVars,
                   peerVars, subs, seen, comp, lookupVars, geomVars, passVars,
                   scanVars>>

\* emit(event, payload), any event name.
RouteEmit(event, payload, beh) ==
    /\ RouteRoom(event, FALSE)
    /\ rcalls' = rcalls \o RemoteCalls("emit", event, label)
    /\ IF IsLocal(event)
       THEN LET r == EmitLocal(listeners, event, label, payload, beh)
            IN  /\ listeners' = r.listeners
                /\ unlCalled' = [unlCalled EXCEPT ![event] = @ \cup r.unl]
                /\ last' = [NoOp EXCEPT !.op = "emit", !.by = "client",
                                        !.event = event, !.payload = payload,
                                        !.start = ListOf(listeners, event),
                                        !.calls = r.calls, !.threw = r.threw,
                                        !.unl = r.unl,
                                        !.throwers =
                                            Throwers(ListOf(listeners, event), beh)]
       ELSE /\ last' = [NoOp EXCEPT !.op = "emit", !.by = "client",
                                    !.event = event, !.payload = payload]
            /\ UNCHANGED <<listeners, unlCalled>>
    /\ UNCHANGED <<label, regKind, nRegs, createVars, invoked, closeVars, cmdVars,
                   peerVars, subs, seen, comp, lookupVars, geomVars, passVars,
                   scanVars>>

\* What the handlers do in an emit: nothing is invoked for a remote event here.
RouteBehaviours(event) ==
    IF IsLocal(event) THEN BehavioursOn("a", event)
    ELSE {[h \in Handlers |-> <<"ret", "none">>]}

NextRoute ==
    \/ \E e \in Events, h \in Handlers : RouteListen(e, h)
    \/ \E e \in Events, h \in Handlers : RouteOnce(e, h)
    \/ \E e \in Events, p \in Payloads :
          \E beh \in RouteBehaviours(e) : RouteEmit(e, p, beh)

SpecRoute == Init /\ [][NextRoute]_vars

\* C14: listen, once and emit on a local event name make no call on the remote
\* channel; on any other event name they leave the listener table as it was and
\* make exactly one remote call, of the same kind, for the same event, with the
\* handle's label as target.
C14_DualPath ==
    [][last'.op \in {"listen", "once", "emit"} =>
          IF last'.event \in {"tauri://created", "tauri://error"}
          THEN rcalls' = rcalls
          ELSE /\ listeners' = listeners
               /\ Len(rcalls') = Len(rcalls) + 1
               /\ SubSeq(rcalls', 1, Len(rcalls)) = rcalls
               /\ rcalls'[Len(rcalls')] =
                      [fn |-> last'.op, event |-> last'.event, target |-> label]]_vars

C14_Witness ==
    /\ label = "w2"
    /\ rcalls = <<[fn |-> "emit", event |-> "app-event", target |-> "w2"]>>
    /\ last.op = "emit"
    /\ last.event = "tauri://created"
    /\ Invoked(last.calls) = <<"h1", "h2">>

(* -------------------- the keys of the listener table ------------------- *)

\* The client calls the closure listen or once returned for a local event,
\* among calls of listen, once and emit with any event name.
RouteUnlisten(event, handler) ==
    /\ IsLocal(event)
    /\ Unlisten(event, handler)

NextTable ==
    \/ \E e \in Events, h \in Handlers : RouteListen(e, h)
    \/ \E e \in Events, h \in Handlers : RouteOnce(e, h)
    \/ \E e \in Events, p \in Payloads :
          \E beh \in RouteBehaviours(e) : RouteEmit(e, p, beh)
    \/ \E e \in Events, h \in Handlers : RouteUnlisten(e, h)

SpecTable == Init /\ [][NextTable]_vars

\* C35: after any sequence of listen, once, unlisten and emit calls the keys
\* of the handle's listener table are among the two local event names; the
\* table is empty until the first registration for a local event; and a call
\* with a remote event name leaves the table as it was.
C35_TableKeys ==
    /\ [](/\ DOMAIN listeners \subseteq LocalEvents
          /\ nRegs = 0 => DOMAIN listeners = {})
    /\ [][~IsLocal(last'.event) => listeners' = listeners]_vars

C35_Witness ==
    /\ last.op = "unlisten"
    /\ DOMAIN listeners = {"tauri://created"}
    /\ listeners["tauri://created"] = <<>>
    /\ \E k \in 1..Len(rcalls) : rcalls[k].fn = "listen"
    /\ \E k \in 1..Len(rcalls) : rcalls[k].fn = "once"

(* ------------------------ the composite listeners ---------------------- *)

\* Number of events the host delivers to the composite listeners.
MaxSeen == 2

\* Number of times the client calls one combined unlisten closure.
MaxUnlistens == 2

Composites == {"onFocusChanged", "onFileDropEvent"}

\* The events a composite listener subscribes to, in the order of its listen calls.
Underlying(c) ==
    IF c = "onFocusChanged"
    THEN <<"tauri://focus", "tauri://blur">>
    ELSE <<"tauri://file-drop", "tauri://file-drop-hover",
           "tauri://file-drop-cancelled">>

CompositeEvents == Range(Underlying("onFocusChanged")) \cup
                   Range(Underlying("onFileDropEvent"))

\* Payloads the host sends with a file-drop event.
HostPaths == {"paths1", "paths2"}

\* Variant of the wrappers with the focus and blur payloads exchanged.
WrapFocusInverted(event) ==
    CASE event.event = "tauri://focus" -> [event EXCEPT !.payload = FALSE]
      [] event.event = "tauri://blur" -> [event EXCEPT !.payload = TRUE]
      [] event.event = "tauri://file-drop" ->
             [event EXCEPT !.payload = [type |-> "drop", paths |-> event.payload]]
      [] event.event = "tauri://file-drop-hover" ->
             [event EXCEPT !.payload = [type |-> "hover", paths |-> event.payload]]
      [] event.event = "tauri://file-drop-cancelled" ->
             [event EXCEPT !.payload = [type |-> "cancel"]]

\* Variant of the wrappers with the drop and hover tags exchanged.
WrapTagsExchanged(event) ==
    CASE event.event = "tauri://focus" -> [event EXCEPT !.payload = TRUE]
      [] event.event = "tauri://blur" -> [event EXCEPT !.payload = FALSE]
      [] event.event = "tauri://file-drop" ->
             [event EXCEPT !.payload = [type |-> "hover", paths |-> event.payload]]
      [] event.event = "tauri://file-drop-hover" ->
             [event EXCEPT !.payload = [type |-> "drop", paths |-> event.payload]]
      [] event.event = "tauri://file-drop-cancelled" ->
             [event EXCEPT !.payload = [type |-> "cancel"]]

\* The wrapper each underlying subscription runs: handler({ ...event, payload }).
Wrap(event) ==
    CASE event.event = "tauri://focus" -> [event EXCEPT !.payload = TRUE]
      [] event.event = "tauri://blur" -> [event EXCEPT !.payload = FALSE]
      [] event.event = "tauri://file-drop" ->
             [event EXCEPT !.payload = [type |-> "drop", paths |-> event.payload]]
      [] event.event = "tauri://file-drop-hover" ->
             [event EXCEPT !.payload = [type |-> "hover", paths |-> event.payload]]
      [] event.event = "tauri://file-drop-cancelled" ->
             [event EXCEPT !.payload = [type |-> "cancel"]]

\* The ids of the subscriptions a composite listener has made so far.
SubsOf(c) == {i \in 1..Len(subs) : subs[i].of = c}

\* The composite's listen calls have all returned: the client holds its
\* combined unlisten closure.
Returned(c) == Cardinality(SubsOf(c)) = Len(Underlying(c))

\* The unlisten closure of a remote subscription: the subscription is no longer
\* in force; on one already removed nothing changes, and nothing is thrown.
RemoteUnlisten(ss, i) ==
    [subs |-> [ss EXCEPT ![i].active = FALSE, ![i].unl = @ + 1], threw |-> FALSE]

\* Calls the unlisten closures ids[k], ids[k+1], ... in order, up to a throw.
RECURSIVE UnlistenFrom(_, _, _)
UnlistenFrom(ss, ids, k) ==
    IF k > Len(ids) THEN [subs |-> ss, threw |-> FALSE]
    ELSE LET r == RemoteUnlisten(ss, ids[k])
         IN  IF r.threw THEN r ELSE UnlistenFrom(r.subs, ids, k + 1)

\* The ids of a set of subscriptions in increasing order.
RECURSIVE Ascending(_)
Ascending(ids) ==
    IF ids = {} THEN <<>>
    ELSE LET m == CHOOSE i \in ids : \A j \in ids : i <= j
         IN  <<m>> \o Ascending(ids \ {m})

\* Variant of the combined closure that calls only its first unlisten.
UnlistenAllFirstOnly(ss, ids) == UnlistenFrom(ss, SubSeq(ids, 1, 1), 1)

\* The closure a composite listener returns: () => { unlistenA(); unlistenB(); ... }
UnlistenAll(ss, ids) == UnlistenFrom(ss, ids, 1)

\* The next `await this.listen(event, wrapper)` of a composite listener.
ListenNext(c) ==
    LET event == Underlying(c)[Cardinality(SubsOf(c)) + 1]
    IN  /\ subs' = Append(subs, [event |-> event, of |-> c, active |-> TRUE,
                                 unl |-> 0])
        /\ rcalls' = rcalls \o RemoteCalls("listen", event, label)
        /\ last' = [NoOp EXCEPT !.op = "listen", !.event = event, !.handler = c]
        /\ UNCHANGED <<label, listeners, regKind, unlCalled, nRegs, createVars,
                       invoked, closeVars, cmdVars, peerVars, seen, comp, lookupVars,
                       geomVars, passVars,
                   scanVars>>

\* onFocusChanged(handler), one listen call at a time.
OnFocusChanged ==
    /\ ~Returned("onFocusChanged")
    /\ ListenNext("onFocusChanged")

\* onFileDropEvent(handler), one listen call at a time.
OnFileDropEvent ==
    /\ ~Returned("onFileDropEvent")
    /\ ListenNext("onFileDropEvent")

\* The host emits an event for this window: the wrapper of every subscription
\* in force for it hands the wrapped event to the client's handler.
HostEvent(event, payload) ==
    /\ Len(seen) < MaxSeen
    /\ LET evt == [event |-> event, id |-> Len(seen) + 1, windowLabel |-> label,
                   payload |-> payload]
           hit == {i \in 1..Len(subs) : subs[i].event = event /\ subs[i].active}
       IN  /\ hit # {}
           /\ seen' = seen \o [k \in 1..Cardinality(hit) |-> Wrap(evt)]
    /\ last' = [NoOp EXCEPT !.op = "deliver", !.event = event, !.payload = payload]
    /\ UNCHANGED <<label, listeners, regKind, unlCalled, nRegs, createVars,
                   invoked, closeVars, cmdVars, peerVars, rcalls, subs, comp, lookupVars,
                   geomVars, passVars,
                   scanVars>>

\* The client calls the combined unlisten closure of a composite listener.
CombinedUnlisten(c) ==
    /\ Returned(c)
    /\ \A i \in SubsOf(c) : subs[i].unl < MaxUnlistens
    /\ LET r == UnlistenAll(subs, Ascending(SubsOf(c)))
       IN  /\ subs' = r.subs
           /\ last' = [NoOp EXCEPT !.op = "unlistenAll", !.handler = c,
                                   !.threw = r.threw]
    /\ UNCHANGED <<label, listeners, regKind, unlCalled, nRegs, createVars,
                   invoked, closeVars, cmdVars, peerVars, rcalls, seen, comp, lookupVars,
                   geomVars, passVars,
                   scanVars>>

NextComposite ==
    \/ OnFocusChanged
    \/ OnFileDropEvent
    \/ \E e \in CompositeEvents, p \in HostPaths : HostEvent(e, p)
    \/ \E c \in Composites : CombinedUnlisten(c)

SpecComposite == Init /\ [][NextComposite]_vars

\* The combined unlisten closure of the composite has been called.
Unlistened(c) == \E i \in SubsOf(c) : subs[i].unl > 0

\* C16: a call of a composite listener's combined unlisten closure calls each of
\* its underlying unlisten closures (two for onFocusChanged, three for
\* onFileDropEvent) once and raises no error, on the first call and on a later
\* one; once it has been called, no event of the composite reaches the
\* client's handler.
C16_CombinedUnlisten ==
    [][/\ last'.op = "unlistenAll" =>
             /\ ~last'.threw
             /\ Cardinality(SubsOf(last'.handler)) =
                    IF last'.handler = "onFocusChanged" THEN 2 ELSE 3
             /\ \A i \in SubsOf(last'.handler) :
                    subs'[i].unl = subs[i].unl + 1 /\ ~subs'[i].active
       /\ \A c \in Composites :
             Unlistened(c) =>
                 \A k \in (Len(seen) + 1)..Len(seen') :
                     seen'[k].event \notin Range(Underlying(c))]_vars

C16_Witness ==
    /\ last.op = "unlistenAll"
    /\ last.handler = "onFileDropEvent"
    /\ \A i \in SubsOf("onFileDropEvent") : subs[i].unl = 2
    /\ \E i \in SubsOf("onFocusChanged") : subs[i].active
    /\ Len(seen) = 2
    /\ seen[1].event = "tauri://file-drop-hover"
    /\ seen[2].event = "tauri://blur"

\* The step handed the client's handler exactly one more event, the last of
\* seen', with the name, id and window label of the event the host sent.
OneMoreSeen ==
    /\ Len(seen') = Len(seen) + 1
    /\ \A k \in 1..Len(seen) : seen'[k] = seen[k]
    /\ seen'[Len(seen')].event = last'.event
    /\ seen'[Len(seen')].id = Len(seen')
    /\ seen'[Len(seen')].windowLabel = label

\* C25: every focus or blur event delivered to the subscriptions of
\* onFocusChanged reaches the client's handler once, after the events
\* delivered before it, with payload true for focus and false for blur and
\* with the event's other fields as the host sent them.
C25_FocusCollapse ==
    [][(last'.op = "deliver" /\ last'.event \in {"tauri://focus", "tauri://blur"})
          => /\ OneMoreSeen
             /\ seen'[Len(seen')].payload = (last'.event = "tauri://focus")]_vars

C25_Witness ==
    /\ last.op = "deliver"
    /\ Len(seen) = 2
    /\ seen[1].event = "tauri://focus" /\ seen[1].payload = TRUE
    /\ seen[2].event = "tauri://blur" /\ seen[2].payload = FALSE
    /\ seen[2].id = 2 /\ seen[2].windowLabel = label

\* C26: every file-drop event with payload P delivered to the subscriptions of
\* onFileDropEvent reaches the client's handler once with payload
\* {type: "drop", paths: P}, every file-drop-hover event with
\* {type: "hover", paths: P}, and every file-drop-cancelled event with
\* {type: "cancel"} and no paths.
C26_FileDropTagging ==
    [][(last'.op = "deliver" /\
        last'.event \in {"tauri://file-drop", "tauri://file-drop-hover",
                         "tauri://file-drop-cancelled"})
          => /\ OneMoreSeen
             /\ seen'[Len(seen')].payload =
                   CASE last'.event = "tauri://file-drop" ->
                            [type |-> "drop", paths |-> last'.payload]
                     [] last'.event = "tauri://file-drop-hover" ->
                            [type |-> "hover", paths |-> last'.payload]
                     [] last'.event = "tauri://file-drop-cancelled" ->
                            [type |-> "cancel"]]_vars

C26_Witness ==
    /\ last.op = "deliver"
    /\ Len(seen) = 2
    /\ seen[1].event = "tauri://file-drop-hover"
    /\ seen[1].payload = [type |-> "hover", paths |-> "paths2"]
    /\ seen[2].event = "tauri://file-drop-cancelled"
    /\ DOMAIN seen[2].payload = {"type"}
    /\ seen[2].payload.type = "cancel"

(* ---------------- composite listeners whose listen may fail ------------ *)

\* The call of composite c, once made: the await it is at and how it ended.
CallOf(c) == IF c \in DOMAIN comp THEN comp[c] ELSE [phase |-> "idle", k |-> 0]

\* Variant in which a rejected await unlistens the subscriptions made earlier.
AwaitRejectedRollback(ss, c) ==
    [i \in 1..Len(ss) |->
        IF ss[i].of = c THEN [ss[i] EXCEPT !.active = FALSE] ELSE ss[i]]

\* `await this.listen(...)` on a rejected promise throws out of the composite
\* listener: the unlisten closures held in its local constants are dropped
\* uncalled, so the subscriptions stay as they are.
AwaitRejected(ss, c) == ss

\* The client calls composite listener c: it runs up to its first await, the
\* listen call for its first underlying event.
CallComposite(c) ==
    /\ c \notin DOMAIN comp
    /\ comp' = (c :> [phase |-> "awaiting", k |-> 1]) @@ comp
    /\ rcalls' = rcalls \o RemoteCalls("listen", Underlying(c)[1], label)
    /\ last' = [NoOp EXCEPT !.op = "listen", !.event = Underlying(c)[1],
                            !.handler = c]
    /\ UNCHANGED <<label, listeners, regKind, unlCalled, nRegs, createVars,
                   invoked, closeVars, cmdVars, peerVars, subs, seen,
                   lookupVars, geomVars, passVars, scanVars>>

\* The awaited listen resolves with its unlisten closure: the subscription is
\* in force, and the composite goes on to its next listen call, or returns
\* the combined closure after the last one.
ListenResolved(c) ==
    /\ CallOf(c).phase = "awaiting"
    /\ subs' = Append(subs, [event |-> Underlying(c)[comp[c].k], of |-> c,
                             active |-> TRUE, unl |-> 0])
    /\ IF comp[c].k < Len(Underlying(c))
       THEN /\ comp' = [comp EXCEPT ![c].k = @ + 1]
            /\ rcalls' = rcalls \o
                   RemoteCalls("listen", Underlying(c)[comp[c].k + 1], label)
       ELSE /\ comp' = [comp EXCEPT ![c].phase = "returned"]
            /\ rcalls' = rcalls
    /\ last' = [NoOp EXCEPT !.op = "subscribed",
                            !.event = Underlying(c)[comp[c].k], !.handler = c]
    /\ UNCHANGED <<label, listeners, regKind, unlCalled, nRegs, createVars,
                   invoked, closeVars, cmdVars, peerVars, seen,
                   lookupVars, geomVars, passVars, scanVars>>

\* The awaited listen rejects: no subscription is made for it and the promise
\* of the composite listener rejects.
ListenRejected(c) ==
    /\ CallOf(c).phase = "awaiting"
    /\ comp' = [comp EXCEPT ![c].phase = "failed"]
    /\ subs' = AwaitRejected(subs, c)
    /\ last' = [NoOp EXCEPT !.op = "rejected",
                            !.event = Underlying(c)[comp[c].k], !.handler = c,
                            !.threw = TRUE]
    /\ UNCHANGED <<label, listeners, regKind, unlCalled, nRegs, createVars,
                   invoked, closeVars, cmdVars, peerVars, rcalls, seen,
                   lookupVars, geomVars, passVars, scanVars>>

\* The client calls the combined closure the composite listener returned.
ReturnedUnlisten(c) ==
    /\ CallOf(c).phase = "returned"
    /\ CombinedUnlisten(c)

NextPartial ==
    \/ \E c \in Composites : CallComposite(c)
    \/ \E c \in Composites : ListenResolved(c)
    \/ \E c \in Composites : ListenRejected(c)
    \/ \E e \in CompositeEvents : HostEvent(e, "paths1")
    \/ \E c \in Composites : ReturnedUnlisten(c)

SpecPartial == Init /\ [][NextPartial]_vars

\* The listen calls made so far on the remote channel for the events of c.
ListenCalls(c) ==
    SelectSeq(rcalls, LAMBDA r : r.fn = "listen" /\ r.event \in Range(Underlying(c)))

\* The subscriptions of c are those of its first n underlying events, made in
\* that order, and no listen call beyond the one awaited has been made.
InListenOrder(c) ==
    LET ids == Ascending(SubsOf(c))
        n == Len(ids)
    IN  /\ n <= Len(Underlying(c))
        /\ \A j \in 1..n : subs[ids[j]].event = Underlying(c)[j]
        /\ Len(ListenCalls(c)) =
               IF CallOf(c).phase \in {"awaiting", "failed"} THEN n + 1 ELSE n
        /\ \A j \in 1..Len(ListenCalls(c)) :
               ListenCalls(c)[j].event = Underlying(c)[j]

\* C31: a composite listener subscribes to its underlying events one after
\* another in their order (focus, blur; drop, hover, cancel), each listen call
\* made only after the one before it resolved. When its k-th listen fails the
\* call has failed for good, no further listen call is made, the k-1 earlier
\* subscriptions stay in force with their unlisten closures never called, and
\* the events of those subscriptions still reach the client's handler.
C31_PartialFailure ==
    /\ [](\A c \in Composites :
            /\ InListenOrder(c)
            /\ CallOf(c).phase = "failed" =>
                  /\ Cardinality(SubsOf(c)) = comp[c].k - 1
                  /\ \A i \in SubsOf(c) : subs[i].active /\ subs[i].unl = 0)
    /\ [][\A c \in Composites :
            CallOf(c).phase = "failed" =>
               /\ comp'[c] = comp[c]
               /\ rcalls' = rcalls \/ last'.handler # c
               /\ \A i \in SubsOf(c) :
                     (last'.op = "deliver" /\ last'.event = subs[i].event)
                        => /\ Len(seen') > Len(seen)
                           /\ seen'[Len(seen')] =
                                  Wrap([event |-> last'.event,
                                        id |-> Len(seen'),
                                        windowLabel |-> label,
                                        payload |-> last'.payload])]_vars

C31_Witness ==
    /\ CallOf("onFileDropEvent").phase = "failed"
    /\ CallOf("onFileDropEvent").k = 3
    /\ CallOf("onFocusChanged").phase = "failed"
    /\ CallOf("onFocusChanged").k = 2
    /\ last.op = "deliver"
    /\ last.event = "tauri://file-drop-hover"
    /\ Len(seen) = 2
    /\ seen[1].event = "tauri://focus"
    /\ seen[2].payload = [type |-> "hover", paths |-> "paths1"]

(* --------------------------- the lookups ------------------------------- *)

\* Number of new Window(label) calls the client makes besides the lookups.
MaxCreates == 2

\* Labels of windows the host may open, and labels the client may ask for.
WindowLabels == Labels \cup {"w3"}

\* Variant of the constructor that does not look at options.skip.
WindowCtorIgnoreSkip(lbl, skip) ==
    [null |-> FALSE, label |-> lbl, listeners |-> [e \in {} |-> <<>>],
     chain |-> TRUE,
     cmds |-> <<[cmd |-> "plugin:window|create", label |-> lbl, by |-> "ctor"]>>]

\* new Window(lbl, { skip }): the handle, whether the then/catch chain that
\* emits "tauri://created" / "tauri://error" was started, and the commands sent.
WindowCtor(lbl, skip) ==
    [null |-> FALSE, label |-> lbl, listeners |-> [e \in {} |-> <<>>],
     chain |-> ~skip,
     cmds |-> IF ~skip
              THEN <<[cmd |-> "plugin:window|create", label |-> lbl, by |-> "ctor"]>>
              ELSE <<>>]

\* The null a lookup returns.
NullResult ==
    [null |-> TRUE, label |-> "none", listeners |-> [e \in {} |-> <<>>],
     chain |-> FALSE, cmds |-> <<>>]

\* getCurrent(): current is window.__TAURI_METADATA__.__currentWindow.label.
GetCurrent(current) == WindowCtor(current, TRUE)

\* getAll(): one handle per entry of window.__TAURI_METADATA__.__windows.
GetAll(windows) == [i \in 1..Len(windows) |-> WindowCtor(windows[i], TRUE)]

\* The commands sent while a list of handles was constructed.
RECURSIVE CmdsOf(_)
CmdsOf(results) ==
    IF results = <<>> THEN <<>>
    ELSE results[1].cmds \o CmdsOf(Tail(results))

\* Window.getByLabel(lbl): the result, and the commands sent on the way
\* (by the handles getAll() made, and by the returned one).
GetByLabel(windows, lbl) ==
    LET all == GetAll(windows)
    IN  IF \E i \in 1..Len(all) : all[i].label = lbl
        THEN LET w == WindowCtor(lbl, TRUE)
             IN  [result |-> w, cmds |-> CmdsOf(all) \o w.cmds]
        ELSE [result |-> NullResult, cmds |-> CmdsOf(all)]

\* The host opens another window: its label joins the list.
HostOpens(lbl) ==
    /\ lbl \notin Range(known)
    /\ known' = Append(known, lbl)
    /\ last' = [NoOp EXCEPT !.op = "open", !.handler = lbl]
    /\ UNCHANGED <<label, listeners, regKind, unlCalled, nRegs, createVars, invoked,
                   closeVars, cmdVars, peerVars, remoteVars, origin, found, geomVars, passVars,
                   scanVars>>

\* The client calls getCurrent().
LookupCurrent ==
    /\ found' = <<GetCurrent(label)>>
    /\ invoked' = invoked \o CmdsOf(found')
    /\ origin' = "getCurrent"
    /\ last' = [NoOp EXCEPT !.op = "getCurrent"]
    /\ UNCHANGED <<label, listeners, regKind, unlCalled, nRegs, createVars,
                   closeVars, cmdVars, peerVars, remoteVars, known, geomVars, passVars,
                   scanVars>>

\* The client calls getAll().
LookupAll ==
    /\ found' = GetAll(known)
    /\ invoked' = invoked \o CmdsOf(found')
    /\ origin' = "getAll"
    /\ last' = [NoOp EXCEPT !.op = "getAll"]
    /\ UNCHANGED <<label, listeners, regKind, unlCalled, nRegs, createVars,
                   closeVars, cmdVars, peerVars, remoteVars, known, geomVars, passVars,
                   scanVars>>

\* The client calls Window.getByLabel(lbl).
LookupByLabel(lbl) ==
    /\ found' = <<GetByLabel(known, lbl).result>>
    /\ invoked' = invoked \o GetByLabel(known, lbl).cmds
    /\ origin' = "getByLabel"
    /\ last' = [NoOp EXCEPT !.op = "getByLabel", !.handler = lbl]
    /\ UNCHANGED <<label, listeners, regKind, unlCalled, nRegs, createVars,
                   closeVars, cmdVars, peerVars, remoteVars, known, geomVars, passVars,
                   scanVars>>

\* The client calls new Window(lbl).
Construct(lbl) ==
    /\ Len(invoked) < MaxCreates
    /\ found' = <<WindowCtor(lbl, FALSE)>>
    /\ invoked' = invoked \o CmdsOf(found')
    /\ origin' = "new"
    /\ last' = [NoOp EXCEPT !.op = "new", !.handler = lbl]
    /\ UNCHANGED <<label, listeners, regKind, unlCalled, nRegs, createVars,
                   closeVars, cmdVars, peerVars, remoteVars, known, geomVars, passVars,
                   scanVars>>

NextLookup ==
    \/ \E l \in WindowLabels : HostOpens(l)
    \/ LookupCurrent
    \/ LookupAll
    \/ \E l \in WindowLabels : LookupByLabel(l)
    \/ \E l \in WindowLabels : Construct(l)

SpecLookup == Init /\ [][NextLookup]_vars

Lookups == {"getCurrent", "getAll", "getByLabel"}

\* C19: a call of getCurrent, getAll or Window.getByLabel sends no command, and
\* no handle it returns has the constructor's then/catch chain, the only source
\* of the bootstrap's "tauri://created" and "tauri://error"; getByLabel returns
\* a handle with the label asked for when the label is in the window list, and
\* null otherwise.
C19_LookupsNeverCreate ==
    [][last'.op \in Lookups =>
          /\ invoked' = invoked
          /\ \A i \in 1..Len(found') : ~found'[i].chain /\ found'[i].cmds = <<>>
          /\ last'.op = "getCurrent" =>
                 (Len(found') = 1 /\ ~found'[1].null /\ found'[1].label = label)
          /\ last'.op = "getAll" =>
                 /\ Len(found') = Len(known)
                 /\ \A i \in 1..Len(known) :
                        ~found'[i].null /\ found'[i].label = known[i]
          /\ last'.op = "getByLabel" =>
                 /\ Len(found') = 1
                 /\ IF last'.handler \in {known[k] : k \in 1..Len(known)}
                    THEN ~found'[1].null /\ found'[1].label = last'.handler
                    ELSE found'[1].null]_vars

C19_Witness ==
    /\ last.op = "getByLabel"
    /\ last.handler = "w3"
    /\ "w3" \notin Range(known)
    /\ Len(known) = 2
    /\ found = <<NullResult>>
    /\ Len(invoked) = 1
    /\ invoked[1].label = "w3"

(* ------------------------ sizes and positions -------------------------- *)

\* Largest component of a physical size or position.
MaxCoord == 3

\* A JS number as a fraction in lowest terms with a positive denominator;
\* the rounding of a quotient to a double is not represented.
RECURSIVE Gcd(_, _)
Gcd(a, b) == IF b = 0 THEN a ELSE Gcd(b, a % b)

Abs(a) == IF a < 0 THEN 0 - a ELSE a

Rat(n, d) ==
    LET g == Gcd(Abs(n), Abs(d))
        sgn == IF d < 0 THEN 0 - 1 ELSE 1
    IN  [num |-> sgn * (n \div g), den |-> sgn * (d \div g)]

\* The number of an integer.
Num(i) == [num |-> i, den |-> 1]

\* Variant of the quotient that drops the fractional part.
DivideTruncating(a, b) == Num((a.num * b.den) \div (a.den * b.num))

\* a / b, b not zero.
Divide(a, b) == Rat(a.num * b.den, a.den * b.num)

\* Scale factors: 1, 2, 1.5 and 1.25.
ScaleFactors == {Rat(1, 1), Rat(2, 1), Rat(3, 2), Rat(5, 4)}

\* Widths and heights, and x and y, of the physical values.
Extents == {Num(i) : i \in 0..MaxCoord}
Coords == {Num(i) : i \in (0 - 2)..MaxCoord}

LogicalSize(width, height) ==
    [type |-> "Logical", width |-> width, height |-> height]

PhysicalSize(width, height) ==
    [type |-> "Physical", width |-> width, height |-> height]

LogicalPosition(x, y) == [type |-> "Logical", x |-> x, y |-> y]

PhysicalPosition(x, y) == [type |-> "Physical", x |-> x, y |-> y]

\* PhysicalSize.prototype.toLogical
SizeToLogical(this, scaleFactor) ==
    LogicalSize(Divide(this.width, scaleFactor), Divide(this.height, scaleFactor))

\* PhysicalPosition.prototype.toLogical
PositionToLogical(this, scaleFactor) ==
    LogicalPosition(Divide(this.x, scaleFactor), Divide(this.y, scaleFactor))

\* new PhysicalSize(width, height)
NewPhysicalSize(width, height) ==
    /\ geo' = [kind |-> "size", this |-> PhysicalSize(width, height),
               converted |-> FALSE]
    /\ UNCHANGED <<label, bridgeVars, createVars, invoked, closeVars, cmdVars,
                   peerVars, remoteVars, lookupVars, passVars, scanVars>>

\* new PhysicalPosition(x, y)
NewPhysicalPosition(x, y) ==
    /\ geo' = [kind |-> "position", this |-> PhysicalPosition(x, y),
               converted |-> FALSE]
    /\ UNCHANGED <<label, bridgeVars, createVars, invoked, closeVars, cmdVars,
                   peerVars, remoteVars, lookupVars, passVars, scanVars>>

\* size.toLogical(scaleFactor)
CallSizeToLogical(scaleFactor) ==
    /\ geo.kind = "size"
    /\ geo' = [kind |-> "size", this |-> geo.this, converted |-> TRUE,
               scaleFactor |-> scaleFactor,
               result |-> SizeToLogical(geo.this, scaleFactor)]
    /\ UNCHANGED <<label, bridgeVars, createVars, invoked, closeVars, cmdVars,
                   peerVars, remoteVars, lookupVars, passVars, scanVars>>

\* position.toLogical(scaleFactor)
CallPositionToLogical(scaleFactor) ==
    /\ geo.kind = "position"
    /\ geo' = [kind |-> "position", this |-> geo.this, converted |-> TRUE,
               scaleFactor |-> scaleFactor,
               result |-> PositionToLogical(geo.this, scaleFactor)]
    /\ UNCHANGED <<label, bridgeVars, createVars, invoked, closeVars, cmdVars,
                   peerVars, remoteVars, lookupVars, passVars, scanVars>>

NextGeom ==
    \/ \E w \in Extents, h \in Extents : NewPhysicalSize(w, h)
    \/ \E x \in Coords, y \in Coords : NewPhysicalPosition(x, y)
    \/ \E s \in ScaleFactors : CallSizeToLogical(s)
    \/ \E s \in ScaleFactors : CallPositionToLogical(s)

SpecGeom == Init /\ [][NextGeom]_vars

\* q is the quotient of a by s: q times s is a.
IsQuotient(q, a, s) == q.den > 0 /\ q.num * s.num * a.den = a.num * s.den * q.den

\* C21: toLogical(s) of a physical size (w, h) or position (x, y), s > 0, is a
\* Logical value with components (w/s, h/s) resp. (x/s, y/s), and the physical
\* value is what it was before the call.
C21_ToLogical ==
    [][(geo'.kind # "none" /\ geo'.converted) =>
          /\ geo'.scaleFactor.num > 0
          /\ geo'.result.type = "Logical"
          /\ geo'.this = geo.this
          /\ geo'.this.type = "Physical"
          /\ geo'.kind = "size" =>
                /\ IsQuotient(geo'.result.width, geo.this.width, geo'.scaleFactor)
                /\ IsQuotient(geo'.result.height, geo.this.height, geo'.scaleFactor)
          /\ geo'.kind = "position" =>
                /\ IsQuotient(geo'.result.x, geo.this.x, geo'.scaleFactor)
                /\ IsQuotient(geo'.result.y, geo.this.y, geo'.scaleFactor)]_vars

C21_Witness ==
    /\ geo.kind = "position"
    /\ geo.converted
    /\ geo.this = PhysicalPosition(Num(0 - 1), Num(3))
    /\ geo.scaleFactor = [num |-> 3, den |-> 2]
    /\ geo.result = [type |-> "Logical", x |-> [num |-> 0 - 2, den |-> 3],
                     y |-> [num |-> 2, den |-> 1]]

(* ---------------- a local emit pass, one handler at a time -------------- *)

\* Number of listen/once calls, by the client and by running handlers.
MaxPassRegs == 3

\* Number of emit passes in progress at once (an emit called by a handler of
\* a running pass is nested in it).
MaxDepth == 2

\* The frame of emit(event): the for-of iterator's index i over the live array,
\* and history: the array when the pass started, the handlers invoked so far,
\* the handler that is running, the handlers registered for the event since
\* the pass started, and the registrations made since the pass started whose
\* closure nobody holds yet.
NewFrame(event) ==
    [event |-> event, i |-> 0, start |-> ListOf(listeners, event), calls |-> <<>>,
     running |-> "none", added |-> {}, fresh |-> {}]

Top == stack[Len(stack)]

\* A handler of the innermost pass is running.
InHandler == stack # <<>> /\ Top.running # "none"

\* The array iterator's next(): done once the index reaches the current length.
IteratorDone(frame) == frame.i >= Len(ListOf(listeners, frame.event))

\* The frames after listen/once(event, handler): every pass in progress for
\* the event has had the handler registered since it started. listen and once
\* are async: the closure is the value of the promise they return, handed
\* over in a promise job, and no promise job runs while an emit loop is on the
\* call stack; a pair first registered during a pass has no closure in
\* anybody's hands until the outermost pass has returned.
NoteAdded(event, handler) ==
    [k \in 1..Len(stack) |->
        [stack[k] EXCEPT
            !.added = IF stack[k].event = event THEN @ \cup {handler} ELSE @,
            !.fresh = IF regKind[event][handler] = "none"
                      THEN @ \cup {<<event, handler>>} ELSE @]]

\* The caller holds a closure of listen/once(event, handler): the pair was
\* registered, and not for the first time inside a pass still in progress.
HoldsClosure(event, handler) ==
    /\ handler \in Issued(event)
    /\ IF stack = <<>> THEN TRUE ELSE <<event, handler>> \notin stack[1].fresh

\* this.listen(event, handler), by the client or by a running handler.
PassListen(event, handler) ==
    /\ stack = <<>> \/ InHandler
    /\ nRegs < MaxPassRegs
    /\ nRegs' = nRegs + 1
    /\ listeners' = HandleTauriEvent(listeners, event, handler)
    /\ regKind' = [regKind EXCEPT ![event][handler] = NextKind(@, "listen")]
    /\ stack' = NoteAdded(event, handler)
    /\ UNCHANGED <<label, unlCalled, last, createVars, invoked, closeVars, cmdVars,
                   peerVars, remoteVars, lookupVars, geomVars, scanVars>>

\* this.once(event, handler), by the client or by a running handler.
PassOnce(event, handler) ==
    /\ stack = <<>> \/ InHandler
    /\ nRegs < MaxPassRegs
    /\ nRegs' = nRegs + 1
    /\ listeners' = HandleTauriEvent(listeners, event, handler)
    /\ regKind' = [regKind EXCEPT ![event][handler] = NextKind(@, "once")]
    /\ stack' = NoteAdded(event, handler)
    /\ UNCHANGED <<label, unlCalled, last, createVars, invoked, closeVars, cmdVars,
                   peerVars, remoteVars, lookupVars, geomVars, scanVars>>

\* The closure of listen/once(event, handler) is called, by the client or by
\* a running handler.
PassUnlisten(event, handler) ==
    /\ stack = <<>> \/ InHandler
    /\ HoldsClosure(event, handler)
    /\ listeners' = UnlistenLocal(listeners, event, handler)
    /\ unlCalled' = [unlCalled EXCEPT ![event] = @ \cup {handler}]
    /\ UNCHANGED <<label, regKind, nRegs, last, createVars, invoked, closeVars,
                   cmdVars, peerVars, remoteVars, lookupVars, geomVars, passVars,
                   scanVars>>

\* this.emit(event) on a local event, by the client or by a running handler:
\* the loop of the new pass runs before the call returns.
PassEmit(event) ==
    /\ stack = <<>> \/ InHandler
    /\ Len(stack) < MaxDepth
    /\ stack' = Append(stack, NewFrame(event))
    /\ UNCHANGED <<label, bridgeVars, createVars, invoked, closeVars, cmdVars,
                   peerVars, remoteVars, lookupVars, geomVars, scanVars>>

\* The loop of the innermost pass takes the next element and calls it.
PassInvoke ==
    /\ stack # <<>>
    /\ Top.running = "none"
    /\ ~IteratorDone(Top)
    /\ LET handler == listeners[Top.event][Top.i + 1]
       IN  stack' = [stack EXCEPT ![Len(stack)].running = handler,
                                  ![Len(stack)].calls = Append(@, handler)]
    /\ UNCHANGED <<label, bridgeVars, createVars, invoked, closeVars, cmdVars,
                   peerVars, remoteVars, lookupVars, geomVars, scanVars>>

\* The running handler returns: the loop goes on with the next index.
HandlerReturn ==
    /\ InHandler
    /\ stack' = [stack EXCEPT ![Len(stack)].running = "none",
                              ![Len(stack)].i = @ + 1]
    /\ UNCHANGED <<label, bridgeVars, createVars, invoked, closeVars, cmdVars,
                   peerVars, remoteVars, lookupVars, geomVars, scanVars>>

\* The running handler throws: the loop ends and emit's promise rejects; a
\* handler that called this emit goes on running.
HandlerThrow ==
    /\ InHandler
    /\ stack' = SubSeq(stack, 1, Len(stack) - 1)
    /\ UNCHANGED <<label, bridgeVars, createVars, invoked, closeVars, cmdVars,
                   peerVars, remoteVars, lookupVars, geomVars, scanVars>>

\* The iterator of the innermost pass is done: emit returns.
PassEnd ==
    /\ stack # <<>>
    /\ Top.running = "none"
    /\ IteratorDone(Top)
    /\ stack' = SubSeq(stack, 1, Len(stack) - 1)
    /\ UNCHANGED <<label, bridgeVars, createVars, invoked, closeVars, cmdVars,
                   peerVars, remoteVars, lookupVars, geomVars, scanVars>>

NextPass ==
    \/ \E e \in LocalEvents, h \in Handlers : PassListen(e, h)
    \/ \E e \in LocalEvents, h \in Handlers : PassOnce(e, h)
    \/ \E e \in LocalEvents, h \in Handlers : PassUnlisten(e, h)
    \/ \E e \in LocalEvents : PassEmit(e)
    \/ PassInvoke
    \/ HandlerReturn
    \/ HandlerThrow
    \/ PassEnd

SpecPass == Init /\ [][NextPass]_vars

\* C22: a handler registered with once for a local event is not invoked by an
\* emit of the event made from inside its own invocation.
C22_OnceNoReentrantFire ==
    \A j, k \in 1..Len(stack) :
        (j < k /\ stack[j].event = stack[k].event
               /\ stack[j].running # "none"
               /\ regKind[stack[j].event][stack[j].running] = "once")
            => stack[k].running # stack[j].running

\* C23: a handler registered for a local event while a pass for the event is
\* in progress is not invoked in that pass.
C23_RegisteredDuringPass ==
    \A k \in 1..Len(stack) :
        \A h \in stack[k].added \ Range(stack[k].start) :
            h \notin Range(stack[k].calls)

\* C24: a pass makes at most as many handler invocations as there were
\* handlers registered for the event when it started.
C24_BoundedInvocations ==
    \A k \in 1..Len(stack) : Len(stack[k].calls) <= Len(stack[k].start)

(* ---------------------- resize and move listeners ---------------------- *)

Resized == "tauri://resize"
Moved == "tauri://move"

\* The payloads the host sends with a resize and with a move event.
HostSizes == {[width |-> Num(w), height |-> Num(h)] : w \in {1, 3}, h \in {2}}
HostPositions == {[x |-> Num(x), y |-> Num(y)] : x \in {0 - 2, 3}, y \in {1}}

\* Variant that converts the size with a scale factor of 2.
mapPhysicalSizeScaled(m) ==
    SizeToLogical(PhysicalSize(m.width, m.height), Rat(2, 1))

mapPhysicalSize(m) == PhysicalSize(m.width, m.height)

mapPhysicalPosition(m) == PhysicalPosition(m.x, m.y)

\* Number of onResized and onMoved calls, taken together.
MaxResizeSubs == 2

\* The subscriptions in force for the event.
Subscribed(event) == {i \in 1..Len(subs) : subs[i].event = event /\ subs[i].active}

\* onResized(handler): this.listen(WINDOW_RESIZED, wrapper).
OnResized ==
    /\ Len(subs) < MaxResizeSubs
    /\ subs' = Append(subs, [event |-> Resized, of |-> "onResized",
                             active |-> TRUE, unl |-> 0])
    /\ rcalls' = rcalls \o RemoteCalls("listen", Resized, label)
    /\ last' = [NoOp EXCEPT !.op = "listen", !.event = Resized]
    /\ UNCHANGED <<label, listeners, regKind, unlCalled, nRegs, createVars, invoked,
                   closeVars, cmdVars, peerVars, seen, comp, lookupVars, geomVars,
                   passVars, scanVars>>

\* onMoved(handler): this.listen(WINDOW_MOVED, wrapper).
OnMoved ==
    /\ Len(subs) < MaxResizeSubs
    /\ subs' = Append(subs, [event |-> Moved, of |-> "onMoved",
                             active |-> TRUE, unl |-> 0])
    /\ rcalls' = rcalls \o RemoteCalls("listen", Moved, label)
    /\ last' = [NoOp EXCEPT !.op = "listen", !.event = Moved]
    /\ UNCHANGED <<label, listeners, regKind, unlCalled, nRegs, createVars, invoked,
                   closeVars, cmdVars, peerVars, seen, comp, lookupVars, geomVars,
                   passVars, scanVars>>

\* The client calls the unlisten closure of subscription i.
UnlistenRemote(i) ==
    /\ i \in 1..Len(subs)
    /\ subs[i].active
    /\ subs' = RemoteUnlisten(subs, i).subs
    /\ last' = [NoOp EXCEPT !.op = "unlisten", !.event = subs[i].event]
    /\ UNCHANGED <<label, listeners, regKind, unlCalled, nRegs, createVars, invoked,
                   closeVars, cmdVars, peerVars, rcalls, seen, comp, lookupVars, geomVars,
                   passVars, scanVars>>

\* The host sends a resize event: the wrapper of every subscription in force
\* runs e.payload = mapPhysicalSize(e.payload); handler(e) on its own copy.
HostResized(m) ==
    /\ Len(seen) < MaxSeen
    /\ Subscribed(Resized) # {}
    /\ seen' = seen \o [k \in 1..Cardinality(Subscribed(Resized)) |->
                            [event |-> Resized, id |-> Len(seen) + 1,
                             windowLabel |-> label, payload |-> mapPhysicalSize(m)]]
    /\ last' = [NoOp EXCEPT !.op = "deliver", !.event = Resized, !.raw = m]
    /\ UNCHANGED <<label, listeners, regKind, unlCalled, nRegs, createVars, invoked,
                   closeVars, cmdVars, peerVars, rcalls, subs, comp, lookupVars, geomVars,
                   passVars, scanVars>>

\* The host sends a move event: the wrapper of every subscription in force
\* runs e.payload = mapPhysicalPosition(e.payload); handler(e) on its own copy.
HostMoved(m) ==
    /\ Len(seen) < MaxSeen
    /\ Subscribed(Moved) # {}
    /\ seen' = seen \o [k \in 1..Cardinality(Subscribed(Moved)) |->
                            [event |-> Moved, id |-> Len(seen) + 1,
                             windowLabel |-> label,
                             payload |-> mapPhysicalPosition(m)]]
    /\ last' = [NoOp EXCEPT !.op = "deliver", !.event = Moved, !.raw = m]
    /\ UNCHANGED <<label, listeners, regKind, unlCalled, nRegs, createVars, invoked,
                   closeVars, cmdVars, peerVars, rcalls, subs, comp, lookupVars, geomVars,
                   passVars, scanVars>>

NextResize ==
    \/ OnResized
    \/ OnMoved
    \/ \E i \in 1..MaxResizeSubs : UnlistenRemote(i)
    \/ \E m \in HostSizes : HostResized(m)
    \/ \E m \in HostPositions : HostMoved(m)

SpecResize == Init /\ [][NextResize]_vars

\* C27: a resize event reaches the handler of every onResized subscription in
\* force, once each, with a Physical size whose width and height are those of
\* the host's payload, a move event reaches the handler of every onMoved
\* subscription in force with a Physical position whose x and y are those of
\* the host's payload, and the delivery sends no command and makes no call on
\* the remote channel.
C27_PhysicalDelivery ==
    [][last'.op = "deliver" =>
          /\ Len(seen') = Len(seen) + Cardinality(Subscribed(last'.event))
          /\ Len(seen') > Len(seen)
          /\ \A k \in 1..Len(seen) : seen'[k] = seen[k]
          /\ \A k \in (Len(seen) + 1)..Len(seen') :
                /\ seen'[k].event = last'.event
                /\ seen'[k].id = Len(seen) + 1
                /\ seen'[k].windowLabel = label
                /\ seen'[k].payload.type = "Physical"
                /\ last'.event = "tauri://resize" =>
                      /\ seen'[k].payload.width = last'.raw.width
                      /\ seen'[k].payload.height = last'.raw.height
                /\ last'.event = "tauri://move" =>
                      /\ seen'[k].payload.x = last'.raw.x
                      /\ seen'[k].payload.y = last'.raw.y
          /\ invoked' = invoked /\ sent' = sent /\ rcalls' = rcalls]_vars

C27_Witness ==
    /\ last.op = "deliver"
    /\ Len(seen) = 2
    /\ seen[1].event = "tauri://resize"
    /\ seen[1].payload = [type |-> "Physical", width |-> Num(3), height |-> Num(2)]
    /\ seen[2].event = "tauri://move"
    /\ seen[2].payload = [type |-> "Physical", x |-> Num(0 - 2), y |-> Num(1)]
    /\ invoked = <<>> /\ sent = <<>>

(* ------------------------- the focused window -------------------------- *)

\* Number of getFocusedWindow calls the client makes.
MaxScans == 2

\* The focus query of a handle: w.isFocused().
FocusQuery(w, call) == Requests("isFocused", w.label, NullArg, call)

\* Variant of the loop that goes on asking after an answer of true.
ScanStepToEnd(sc, answer) ==
    LET answers == Append(sc.answers, answer)
        result == IF answer /\ sc.result.null THEN sc.handles[sc.idx] ELSE sc.result
    IN  IF sc.idx < Len(sc.handles)
        THEN [sc EXCEPT !.answers = answers, !.idx = @ + 1, !.result = result]
        ELSE [sc EXCEPT !.answers = answers, !.phase = "done", !.result = result]

\* for (const w of getAll()) { if (await w.isFocused()) return w; } return null;
\* the loop after the answer to the query of handles[idx] has arrived.
ScanStep(sc, answer) ==
    LET answers == Append(sc.answers, answer)
    IN  IF answer
        THEN [sc EXCEPT !.answers = answers, !.phase = "done",
                        !.result = sc.handles[sc.idx]]
        ELSE IF sc.idx < Len(sc.handles)
        THEN [sc EXCEPT !.answers = answers, !.idx = @ + 1]
        ELSE [sc EXCEPT !.answers = answers, !.phase = "done",
                        !.result = NullResult]

\* The number of calls made so far.
ScansMade == IF scan.phase = "none" THEN 0 ELSE scan.n

\* The client calls Window.getFocusedWindow(): getAll() is evaluated and the
\* first handle is asked.
GetFocusedWindow ==
    /\ scan.phase # "asking"
    /\ ScansMade < MaxScans
    /\ LET handles == GetAll(known)
       IN  /\ scan' = [phase |-> IF handles = <<>> THEN "done" ELSE "asking",
                       n |-> ScansMade + 1, windows |-> known, handles |-> handles,
                       idx |-> 1, answers |-> <<>>, result |-> NullResult,
                       base |-> Len(sent)]
           /\ sent' = IF handles = <<>> THEN sent
                      ELSE sent \o FocusQuery(handles[1], ScansMade + 1)
           /\ invoked' = invoked \o CmdsOf(handles)
    /\ UNCHANGED <<label, bridgeVars, createVars, closeVars, mcalls, peerVars,
                   remoteVars, lookupVars, geomVars, passVars>>

\* The host answers the awaited focus query.
FocusAnswer(answer) ==
    /\ scan.phase = "asking"
    /\ scan' = ScanStep(scan, answer)
    /\ sent' = [sent EXCEPT ![Len(sent)].reply = IF answer THEN "true" ELSE "false"]
               \o (IF scan'.phase = "asking"
                   THEN FocusQuery(scan'.handles[scan'.idx], scan.n)
                   ELSE <<>>)
    /\ UNCHANGED <<label, bridgeVars, createVars, invoked, closeVars, mcalls,
                   peerVars, remoteVars, lookupVars, geomVars, passVars>>

\* The host rejects the awaited focus query: the call fails with its reason.
FocusReject(reason) ==
    /\ scan.phase = "asking"
    /\ scan' = [scan EXCEPT !.phase = "failed"]
    /\ sent' = [sent EXCEPT ![Len(sent)].reply = reason]
    /\ UNCHANGED <<label, bridgeVars, createVars, invoked, closeVars, mcalls,
                   peerVars, remoteVars, lookupVars, geomVars, passVars>>

\* The host opens another window while the client is at work.
ScanHostOpens(lbl) ==
    /\ lbl \notin Range(known)
    /\ known' = Append(known, lbl)
    /\ UNCHANGED <<label, bridgeVars, createVars, invoked, closeVars, cmdVars,
                   peerVars, remoteVars, origin, found, geomVars, passVars,
                   scanVars>>

NextScan ==
    \/ GetFocusedWindow
    \/ \E answer \in BOOLEAN : FocusAnswer(answer)
    \/ \E reason \in HostReasons : FocusReject(reason)
    \/ \E l \in WindowLabels : ScanHostOpens(l)

SpecScan == Init /\ [][NextScan]_vars

\* The focus queries of the call in progress, in the order they were sent.
ScanQueries == SubSeq(sent, scan.base + 1, Len(sent))

\* C29: getFocusedWindow asks the windows known when it was called, in list
\* order; a query is sent only after every earlier one was answered false; the
\* call returns the handle of the first window that answers true and asks no
\* later window; it returns null when every window answered false; it sends
\* no other command.
C29_FocusedWindowScan ==
    scan.phase # "none" =>
        /\ invoked = <<>>
        /\ Len(ScanQueries) <= Len(scan.windows)
        /\ \A k \in 1..Len(ScanQueries) :
              /\ ScanQueries[k].cmd = "plugin:window|is_focused"
              /\ ScanQueries[k].label = scan.windows[k]
              /\ k < Len(ScanQueries) => ScanQueries[k].reply = "false"
        /\ scan.phase = "asking" => ScanQueries[Len(ScanQueries)].reply = "none"
        /\ scan.phase = "done" =>
              /\ ScanQueries[Len(ScanQueries)].reply \in {"true", "false"}
              /\ ScanQueries[Len(ScanQueries)].reply = "true" =>
                    /\ ~scan.result.null
                    /\ scan.result.label = scan.windows[Len(ScanQueries)]
                    /\ scan.result.cmds = <<>>
              /\ ScanQueries[Len(ScanQueries)].reply = "false" =>
                    /\ scan.result.null
                    /\ Len(ScanQueries) = Len(scan.windows)

C29_Witness ==
    /\ scan.phase = "done"
    /\ scan.n = 2
    /\ Len(scan.windows) = 3
    /\ Len(ScanQueries) = 2
    /\ ScanQueries[1].reply = "false"
    /\ ScanQueries[2].reply = "true"
    /\ scan.result.label = scan.windows[2]

(* ------------- handlers registered right after construction ------------ *)

\* w = new Window(label); w.listen(event, handler) in the same synchronous
\* step: the create command has not settled.
EarlyListen(event, handler) ==
    /\ createPhase = "pending"
    /\ Listen(event, handler)

\* w = new Window(label); w.once(event, handler) in the same synchronous step.
EarlyOnce(event, handler) ==
    /\ createPhase = "pending"
    /\ Once(event, handler)

\* A closure is called in that same step.
EarlyUnlisten(event, handler) ==
    /\ createPhase = "pending"
    /\ Unlisten(event, handler)

NextBoot ==
    \/ \E e \in LocalEvents, h \in Handlers : EarlyListen(e, h)
    \/ \E e \in LocalEvents, h \in Handlers : EarlyOnce(e, h)
    \/ \E e \in LocalEvents, h \in Handlers : EarlyUnlisten(e, h)
    \/ CreateResolve
    \/ CreateReject
    \/ \E beh \in BehavioursOf(ThenEvent) : ThenCb(beh)
    \/ \E beh \in BehavioursOf(CatchEvent) : CatchCb(beh)

SpecBoot == InitCreate /\ [][NextBoot]_vars

\* The most recent operation is the first emit of the constructor's chain.
FirstBootPass == last.op = "emit" /\ last.by = "ctor" /\ Len(bootEmits) = 1

\* C30: the constructor's chain emits nothing while the create command is
\* pending, so nothing is emitted during the constructor call; its first emit
\* comes after the command has settled, is "tauri://created" after a success
\* and "tauri://error" after a rejection, and (when no handler of the pass
\* throws and no unlisten closure of the event has been called) invokes every
\* handler that was registered for that event in the step of the construction.
C30_NoEmitDuringConstruction ==
    /\ createPhase = "pending" => (bootEmits = <<>> /\ last.by # "ctor")
    /\ bootEmits # <<>> => createOutcome # "none"
    /\ FirstBootPass =>
          /\ last.event = IF createOutcome = "ok" THEN "tauri://created"
                          ELSE "tauri://error"
          /\ (~last.threw /\ unlCalled[last.event] = {}) =>
                \A h \in Handlers :
                    regKind[last.event][h] # "none" => h \in CalledHandlers(last.calls)

C30_Witness ==
    /\ FirstBootPass
    /\ createOutcome = "err"
    /\ regKind["tauri://error"]["h1"] = "once"
    /\ regKind["tauri://error"]["h2"] = "listen"
    /\ unlCalled["tauri://error"] = {}
    /\ Invoked(last.calls) = <<"h1", "h2">>
    /\ last.payload = "hostError"

====
